---- MODULE Spec2Model ----
(***************************************************************************)
(* A model of cursor-acp: the NDJSON stream reader of CursorCliRunner      *)
(* (readPromptStream), the prompt orchestration of CursorAcpAgent         *)
(* (prompt / runPromptAttempt / cancel / requestPermissionToRetry) and     *)
(* the tool_call mapping of mapCursorEventToAcp.                           *)
(*                                                                         *)
(* SpecReader  : one run of readPromptStream over a child whose standard   *)
(*               output is delivered in arbitrary chunks.                  *)
(* SpecReaderFair : SpecReader with weak fairness on the reader's own      *)
(*               continuations (never on the child's exit).                *)
(* Spec        : one session of the agent; the client sends a prompt when  *)
(*               the previous one has been answered, cancel and            *)
(*               setSessionMode at any time.                               *)
(* SpecOverlap : the same, the client sending prompts at any time.         *)
(* SpecFair    : Spec with weak fairness on the agent's own continuations. *)
(* SpecMapper  : mapCursorEventToAcp over the tool_call records of one     *)
(*               attempt, with its toolUseCache.                           *)
(* SpecClassify : runPromptAttempt's classification of one result event.   *)
(* SpecContent : the text of one tool-call content item.                   *)
(* SpecToolUpdate : toolUpdateFromCursorToolResult over one completion.    *)
(* SpecOnEvent : the records of one attempt from the chain to the client.  *)
(* SpecShell   : the raw and the display text of one shell completion.     *)
(* SpecModes   : the operations that write session.modeId, in any order.  *)
(* SpecSessions : a client paging through unstable_listSessions, each    *)
(*               request carrying the cursor the page before returned.     *)
(***************************************************************************)
EXTENDS Integers, Sequences, FiniteSets, TLC

\* ------------------------------------------------------------------------
\* Bounds
\* ------------------------------------------------------------------------
MaxLines == 2   \* newline-terminated lines the child writes in one run
MaxChunk == 6   \* largest number of characters one stdout chunk carries

None == "none"

\* ------------------------------------------------------------------------
\* Text of the child's output.  A character is a one-character string; a
\* text is a sequence of characters.  "r}" is the serialised result record,
\* "t}" a serialised tool_call record, "a}" a serialised assistant record;
\* any other non-blank text is not JSON.
\* ------------------------------------------------------------------------
ResultText == <<"r", "}">>
ToolText == <<"t", "}">>
AssistantText == <<"a", "}">>

RecordLines ==
  { ResultText \o <<"\n">>, ToolText \o <<"\n">>, AssistantText \o <<"\r", "\n">> }
GarbageLine == <<"t", "\n">>
BlankLine == <<"\n">>
LinePieces == RecordLines \cup {GarbageLine, BlankLine}
TailPieces == { <<>>, ResultText, ToolText, <<"t">>, <<"\r">> }

RECURSIVE Flatten(_)
Flatten(ss) == IF ss = <<>> THEN <<>> ELSE Head(ss) \o Flatten(Tail(ss))

BoundedSeq(S, n) == UNION { [1..k -> S] : k \in 0..n }

IsPrefix(s, t) == Len(s) <= Len(t) /\ SubSeq(t, 1, Len(s)) = s

\* String.prototype.trim, over the white space the model's alphabet has.
IsWs(c) == c \in {"\r", "\n", " "}
RECURSIVE TrimLeft(_)
TrimLeft(s) == IF s # <<>> /\ IsWs(Head(s)) THEN TrimLeft(Tail(s)) ELSE s
RECURSIVE TrimRight(_)
TrimRight(s) ==
  IF s # <<>> /\ IsWs(s[Len(s)]) THEN TrimRight(SubSeq(s, 1, Len(s) - 1)) ELSE s
Trim(s) == TrimRight(TrimLeft(s))

\* JSON.parse(line): the record's type, or "SyntaxError".  JSON.parse
\* tolerates surrounding white space.
ParseJsonSkipping(line) ==
  LET t == Trim(line) IN
  IF t = ResultText THEN "result"
  ELSE IF t = ToolText THEN "tool_call"
  ELSE "assistant"
ParseJson(line) ==
  LET t == Trim(line) IN
    IF t = ResultText THEN "result"
    ELSE IF t = ToolText THEN "tool_call"
    ELSE IF t = AssistantText THEN "assistant"
    ELSE "SyntaxError"

\* stdoutBuffer.split(/\r?\n/): the separator swallows one "\r" directly
\* before the "\n".
StripCR(s) ==
  IF s # <<>> /\ s[Len(s)] = "\r" THEN SubSeq(s, 1, Len(s) - 1) ELSE s
RECURSIVE SplitFrom(_, _, _)
SplitFrom(s, cur, acc) ==
  IF s = <<>> THEN Append(acc, cur)
  ELSE IF Head(s) = "\n" THEN SplitFrom(Tail(s), <<>>, Append(acc, StripCR(cur)))
  ELSE SplitFrom(Tail(s), Append(cur, Head(s)), acc)
SplitLines(s) == SplitFrom(s, <<>>, <<>>)

\* stdoutBuffer = lines.pop() ?? ""
BufferTailLost(lines) == <<>>
BufferTail(lines) == lines[Len(lines)]
CompleteLines(lines) == SubSeq(lines, 1, Len(lines) - 1)

\* ------------------------------------------------------------------------
\* The child's standard error and exit code
\* ------------------------------------------------------------------------
Esc == "ESC"
Bel == "BEL"
IsLetter(c) == c \in {"m", "x"}

\* stripAnsi: a CSI sequence (ESC [ ... letter) and an OSC sequence
\* (ESC ] ... BEL, or ... ESC \) are dropped, of any other escape only the
\* ESC.  mode: "text", "csi" or "osc".
RECURSIVE StripFrom(_, _)
StripFrom(text, mode) ==
  IF text = <<>> THEN <<>>
  ELSE LET c == Head(text)
           rest == Tail(text)
       IN IF mode = "csi"
          THEN StripFrom(rest, IF IsLetter(c) THEN "text" ELSE "csi")
          ELSE IF mode = "osc"
          THEN IF c = Bel THEN StripFrom(rest, "text")
               ELSE IF c = Esc /\ rest # <<>> /\ Head(rest) = "\\"
               THEN StripFrom(Tail(rest), "text")
               ELSE StripFrom(rest, "osc")
          ELSE IF c = Esc
          THEN IF rest # <<>> /\ Head(rest) = "["
               THEN StripFrom(Tail(rest), "csi")
               ELSE IF rest # <<>> /\ Head(rest) = "]"
               THEN StripFrom(Tail(rest), "osc")
               ELSE StripFrom(rest, "text")
          ELSE <<c>> \o StripFrom(rest, "text")

StripAnsiKept(text) == text
StripAnsi(text) == StripFrom(text, "text")

\* what the child writes to stderr: nothing, or a coloured message followed
\* by a line end
StderrTexts == { <<>>, <<Esc, "[", "3", "m", "x", Esc, "]", "0", Bel, "\n">> }

\* the code of the 'close' event: a number, or null when a signal ended
\* the child
NullCode == -1
ExitCodes == {0, NullCode}
\* code ?? 1
ExitCodeOrOne(code) == IF code = NullCode THEN 1 ELSE code

\* errors donePromise can reject with
NoFailure == [kind |-> None, exit |-> 0, text |-> <<>>]
ParseError(line) == [kind |-> "parse", exit |-> 0, text |-> line]
HandlerError == [kind |-> "handler", exit |-> 0, text |-> <<>>]
SpawnError == [kind |-> "child", exit |-> 0, text |-> <<>>]
\* `Cursor CLI exited without result event (exit=${code ?? 1}). ${cleaned}`
NoResultError(code, err) ==
  [kind |-> "noResult", exit |-> ExitCodeOrOne(code), text |-> Trim(StripAnsi(err))]

VARIABLES
  \* the child process of one run
  script,         \* what the child writes: [lines: Seq(text), tail: text, err: text]
  remaining,      \* characters written but not yet delivered as 'data'
  closed,         \* the child's 'close' event has been emitted
  killed,         \* signals sent with child.kill: SIGTERM, SIGKILL
  \* readPromptStream's locals
  stdoutBuffer,
  processing,     \* the promise chain: one task per enqueued line
  events,
  resultEvent,
  settled,
  completion,     \* state of donePromise: pending, resolved, rejected
  failure,        \* the error donePromise rejected with
  errRemaining,   \* characters written to stderr and not yet delivered
  stderr,
  exitCode,       \* the code of the 'close' event
  closePc,        \* position of the close handler's async body
  \* history
  nchunks,        \* number of 'data' events so far
  handled,        \* record types passed to onEvent, in invocation order
  handlerThrew,   \* some onEvent invocation rejected
  \* CursorAcpAgent: one session and the prompt() invocations on it
  session,        \* SessionState: modeId, cancelled, activeRun, backendSessionId
  pc,             \* position of each prompt() invocation
  loc,            \* locals of each prompt() invocation
  run,            \* the CursorPromptRun each invocation last started
  requests,       \* client requests so far (bounds the model)
  \* history
  hist,           \* per invocation: runs started, permission requests, response
  grant,          \* allow_always granted and since then: "none", "granted", "echoed"
  \* mapCursorEventToAcp over the tool_call records of one attempt
  toolUseCache,   \* context.toolUseCache: sanitized call id -> cached payload
  mapped,         \* the MappingResult of the last record
  lastEvent,      \* the last record mapped
  openCalls,      \* history: raw call id -> payload of its started record
  nEvents,        \* records mapped so far (bounds the model)
  \* the classification of one attempt's settled run
  attemptInput,   \* the cancelled flag and the result event the run resolved with
  attemptOutcome, \* what runPromptAttempt returns or throws for it
  \* one call of a function of tools.ts
  call,           \* the arguments
  returned        \* <<>> before the call returns, then << the value returned >>

readerVars ==
  << script, remaining, closed, killed, stdoutBuffer, processing, events,
     resultEvent, settled, completion, failure, errRemaining, stderr, exitCode,
     closePc, nchunks, handled, handlerThrew >>

diagVars == << errRemaining, stderr, exitCode >>

agentVars == << session, pc, loc, run, requests, hist, grant >>

mapperVars == << toolUseCache, mapped, lastEvent, openCalls, nEvents >>

classifyVars == << attemptInput, attemptOutcome >>

pureVars == << call, returned >>

vars == << readerVars, agentVars, mapperVars, classifyVars, pureVars >>

\* ------------------------------------------------------------------------
\* readPromptStream
\* ------------------------------------------------------------------------
Scripts ==
  { [lines |-> ls, tail |-> t, err |-> e] :
      ls \in BoundedSeq(LinePieces, MaxLines), t \in TailPieces, e \in StderrTexts }

ScriptText(s) == Flatten(s.lines) \o s.tail

\* fail(error): settles donePromise as rejected unless already settled.
FailUnguarded ==
  /\ settled' = TRUE
  /\ completion' = "rejected"
Fail ==
  /\ settled' = TRUE
  /\ completion' = IF settled THEN completion ELSE "rejected"

\* fail(error), with the error the completion then carries
FailWith(error) ==
  /\ Fail
  /\ failure' = IF settled THEN failure ELSE error

\* succeed(result)
Succeed ==
  /\ settled' = TRUE
  /\ completion' = IF settled THEN completion ELSE "resolved"

TaskStates(sts) == { i \in DOMAIN processing : processing[i].st \in sts }
HandlerPending == TaskStates({"running"}) # {}

\* enqueueLine for every complete line of a chunk
RECURSIVE EnqueueAll(_, _, _, _)
EnqueueAll(chain, lines, late, n) ==
  IF lines = <<>> THEN chain
  ELSE EnqueueAll(Append(chain, [line |-> Head(lines), st |-> "waiting",
                                 late |-> late, chunk |-> n]),
                  Tail(lines), late, n)

\* child.stdout.on("data")
StdoutData ==
  /\ UNCHANGED << agentVars, diagVars, mapperVars, classifyVars, pureVars >>
  /\ ~closed
  /\ remaining # <<>>
  /\ \E k \in 1..MaxChunk :
       /\ k <= Len(remaining)
       /\ LET buf == stdoutBuffer \o SubSeq(remaining, 1, k)
              lines == SplitLines(buf)
          IN /\ stdoutBuffer' = BufferTail(lines)
             /\ processing' = EnqueueAll(processing, CompleteLines(lines), HandlerPending,
                                         nchunks + 1)
       /\ remaining' = SubSeq(remaining, k + 1, Len(remaining))
  /\ nchunks' = nchunks + 1
  /\ UNCHANGED << script, closed, killed, events, resultEvent, settled,
                  completion, failure, closePc, handled, handlerThrew >>

\* processing.then(() => processLine(line)): the continuation of task i runs
\* once the promise before it in the chain is fulfilled.
ChainReadyUnchained(i) == TRUE
ChainReady(i) == IF i = 1 THEN TRUE ELSE processing[i - 1].st = "fulfilled"

SetSt(i, s) == [processing EXCEPT ![i].st = s]

\* processLine up to its first suspension: blank lines return, a line that
\* is not JSON throws, a record is pushed and handed to onEvent.
ProcessLineStart(i) ==
  /\ UNCHANGED << agentVars, diagVars, mapperVars, classifyVars, pureVars >>
  /\ i \in DOMAIN processing
  /\ processing[i].st = "waiting"
  /\ ChainReady(i)
  /\ LET line == processing[i].line
         parsed == ParseJson(line)
     IN IF Trim(line) = <<>>
        THEN /\ processing' = SetSt(i, "fulfilled")
             /\ UNCHANGED << events, resultEvent, handled, killed, settled, completion, failure >>
        ELSE IF parsed = "SyntaxError"
        THEN \* processing.catch: child.kill("SIGKILL"); fail(error)
             /\ processing' = SetSt(i, "rejected")
             /\ killed' = killed \cup {"SIGKILL"}
             /\ FailWith(ParseError(line))
             /\ UNCHANGED << events, resultEvent, handled >>
        ELSE /\ processing' = SetSt(i, "running")
             /\ events' = Append(events, parsed)
             /\ resultEvent' = IF parsed = "result" THEN parsed ELSE resultEvent
             /\ handled' = Append(handled, parsed)
             /\ UNCHANGED << killed, settled, completion, failure >>
  /\ UNCHANGED << script, remaining, closed, stdoutBuffer, closePc, handlerThrew, nchunks >>

\* await onEvent(parsed) returns
HandlerReturn(i) ==
  /\ UNCHANGED << agentVars, diagVars, mapperVars, classifyVars, pureVars >>
  /\ i \in DOMAIN processing
  /\ processing[i].st = "running"
  /\ processing' = SetSt(i, "fulfilled")
  /\ UNCHANGED << script, remaining, closed, killed, stdoutBuffer, events,
                  resultEvent, settled, completion, failure, closePc, handled, handlerThrew, nchunks >>

\* await onEvent(parsed) throws: the chain rejects and its catch runs
HandlerThrow(i) ==
  /\ UNCHANGED << agentVars, diagVars, mapperVars, classifyVars, pureVars >>
  /\ i \in DOMAIN processing
  /\ processing[i].st = "running"
  /\ processing' = SetSt(i, "rejected")
  /\ handlerThrew' = TRUE
  /\ killed' = killed \cup {"SIGKILL"}
  /\ FailWith(HandlerError)
  /\ UNCHANGED << script, remaining, closed, stdoutBuffer, events, resultEvent,
                  closePc, handled, nchunks >>

\* A rejected promise propagates through .then: the task's continuation is
\* skipped and the catch attached by its enqueueLine runs.
ChainPropagate(i) ==
  /\ UNCHANGED << agentVars, diagVars, mapperVars, classifyVars, pureVars >>
  /\ i \in DOMAIN processing
  /\ i > 1
  /\ processing[i].st = "waiting"
  /\ processing[i - 1].st = "rejected"
  /\ processing' = SetSt(i, "rejected")
  /\ killed' = killed \cup {"SIGKILL"}
  /\ FailWith(failure)
  /\ UNCHANGED << script, remaining, closed, stdoutBuffer, events, resultEvent,
                  closePc, handled, handlerThrew, nchunks >>

\* child.stderr.on("data"): what the child wrote arrives in one chunk
StderrData ==
  /\ UNCHANGED << agentVars, mapperVars, classifyVars, pureVars >>
  /\ ~closed
  /\ errRemaining # <<>>
  /\ stderr' = stderr \o errRemaining
  /\ errRemaining' = <<>>
  /\ UNCHANGED << script, remaining, closed, killed, stdoutBuffer, processing, events,
                  resultEvent, settled, completion, failure, closePc, handled,
                  handlerThrew, nchunks, exitCode >>

\* run.cancel(): child.kill("SIGTERM")
RunCancelDiscarding ==
  /\ UNCHANGED << agentVars, diagVars, mapperVars, classifyVars, pureVars >>
  /\ ~closed
  /\ killed' = killed \cup {"SIGTERM"}
  /\ events' = <<>>
  /\ UNCHANGED << script, remaining, closed, stdoutBuffer, processing,
                  resultEvent, settled, completion, failure, closePc, handled, handlerThrew, nchunks >>
RunCancel ==
  /\ UNCHANGED << agentVars, diagVars, mapperVars, classifyVars, pureVars >>
  /\ ~closed
  /\ killed' = killed \cup {"SIGTERM"}
  /\ UNCHANGED << script, remaining, closed, stdoutBuffer, processing, events,
                  resultEvent, settled, completion, failure, closePc, handled, handlerThrew, nchunks >>

\* child.on("error"): the event may come at any time, also after 'close'
ChildError ==
  /\ UNCHANGED << agentVars, diagVars, mapperVars, classifyVars, pureVars >>
  /\ FailWith(SpawnError)
  /\ UNCHANGED << script, remaining, closed, killed, stdoutBuffer, processing,
                  events, resultEvent, closePc, handled, handlerThrew, nchunks >>

\* The child exits and its pipes end: 'close' is emitted after the last
\* 'data'.  A child that was sent a signal may exit before it has written
\* everything: what is left in remaining is then never delivered.
ChildClose ==
  /\ UNCHANGED << agentVars, mapperVars, classifyVars, pureVars >>
  /\ ~closed
  /\ remaining = <<>> \/ killed # {}
  /\ errRemaining = <<>> \/ killed # {}
  /\ \E code \in ExitCodes :
       /\ killed = {} => code # NullCode
       /\ exitCode' = code
  /\ UNCHANGED << errRemaining, stderr >>
  /\ closed' = TRUE
  /\ closePc' = "awaitProcessing"
  /\ UNCHANGED << script, remaining, killed, stdoutBuffer, processing, events,
                  resultEvent, settled, completion, failure, handled, handlerThrew, nchunks >>

\* the tail of the close handler: no result event throws, else succeed
CloseFinishAlways(res) == Succeed /\ UNCHANGED failure
CloseFinish(res) ==
  IF res = None
  THEN FailWith(NoResultError(exitCode, stderr))
  ELSE Succeed /\ UNCHANGED failure

\* `await processing` in the close handler throws when the chain is rejected
AwaitProcessingNeverThrows == FALSE
AwaitProcessingThrows == TaskStates({"rejected"}) # {}

\* close handler: await processing; flush the unterminated tail
CloseAfterProcessing ==
  /\ UNCHANGED << agentVars, diagVars, mapperVars, classifyVars, pureVars >>
  /\ closePc = "awaitProcessing"
  /\ TaskStates({"waiting", "running"}) = {}
  /\ IF AwaitProcessingThrows
     THEN /\ FailWith(failure)
          /\ closePc' = "finished"
          /\ UNCHANGED << events, resultEvent, handled >>
     ELSE IF Trim(stdoutBuffer) # <<>>
     THEN LET parsed == ParseJson(stdoutBuffer) IN
          IF parsed = "SyntaxError"
          THEN /\ FailWith(ParseError(stdoutBuffer))
               /\ closePc' = "finished"
               /\ UNCHANGED << events, resultEvent, handled >>
          ELSE /\ events' = Append(events, parsed)
               /\ resultEvent' = IF parsed = "result" THEN parsed ELSE resultEvent
               /\ handled' = Append(handled, parsed)
               /\ closePc' = "tailHandler"
               /\ UNCHANGED << settled, completion, failure >>
     ELSE /\ CloseFinish(resultEvent)
          /\ closePc' = "finished"
          /\ UNCHANGED << events, resultEvent, handled >>
  /\ UNCHANGED << script, remaining, closed, killed, stdoutBuffer, processing,
                  handlerThrew, nchunks >>

\* close handler: await processLine(stdoutBuffer) returns
CloseTailReturn ==
  /\ UNCHANGED << agentVars, diagVars, mapperVars, classifyVars, pureVars >>
  /\ closePc = "tailHandler"
  /\ CloseFinish(resultEvent)
  /\ closePc' = "finished"
  /\ UNCHANGED << script, remaining, closed, killed, stdoutBuffer, processing,
                  events, resultEvent, handled, handlerThrew, nchunks >>

\* close handler: await processLine(stdoutBuffer) throws
CloseTailThrow ==
  /\ UNCHANGED << agentVars, diagVars, mapperVars, classifyVars, pureVars >>
  /\ closePc = "tailHandler"
  /\ FailWith(HandlerError)
  /\ handlerThrew' = TRUE
  /\ closePc' = "finished"
  /\ UNCHANGED << script, remaining, closed, killed, stdoutBuffer, processing,
                  events, resultEvent, handled, nchunks >>

NextReader ==
  \/ StdoutData
  \/ StderrData
  \/ \E i \in 1..(MaxLines + 1) : ProcessLineStart(i)
  \/ \E i \in 1..(MaxLines + 1) : HandlerReturn(i)
  \/ \E i \in 1..(MaxLines + 1) : HandlerThrow(i)
  \/ \E i \in 1..(MaxLines + 1) : ChainPropagate(i)
  \/ RunCancel
  \/ ChildError
  \/ ChildClose
  \/ CloseAfterProcessing
  \/ CloseTailReturn
  \/ CloseTailThrow

\* ------------------------------------------------------------------------
\* CursorAcpAgent
\* ------------------------------------------------------------------------
NumSlots == 2      \* prompt() invocations that can be in flight together
MaxRequests == 3   \* client requests (prompt, cancel, setSessionMode) in one behaviour
MaxRunLines == 3   \* lines the child of one run writes
MaxOverlapLines == 2   \* the same, where prompts overlap

Slots == 1..NumSlots
\* session.activeRun names the slot whose run it holds; 0 is undefined
NoActiveRun == 0

SUPPORTED_MODE_IDS == {"default", "acceptEdits", "plan", "ask", "bypassPermissions"}
DEFAULT_MODE_ID == "default"

\* The lines a child writes, as the mapper and runPromptAttempt tell them
\* apart: system/init with a permissionMode and a session_id (init:bogus
\* has an empty session_id, init:bare none), a completed tool_call whose
\* result is rejected, a started tool_call for the same call id, an
\* assistant message with one text segment, the
\* result subtypes, and a line that is not JSON.
InitRecords == {"init:default", "init:plan", "init:bogus", "init:bare"}
ResultRecords == {"result:success", "result:error_max_turns", "result:error"}
Records ==
  InitRecords \cup ResultRecords
    \cup {"tool_started", "tool_rejected", "assistant", "garbage"}

\* permissionMode carried by a system/init record
PermissionModeOf(rec) ==
  IF rec = "init:default" THEN "default"
  ELSE IF rec = "init:plan" THEN "plan"
  ELSE "bogus"

\* mapCursorEventToAcp: the notifications of one record
NotificationsOf(rec) ==
  IF rec = "tool_rejected" THEN <<"tool_call_update">>
  ELSE IF rec = "assistant" THEN <<"agent_message_chunk">>
  ELSE IF rec = "tool_started" THEN <<"tool_call">>
  ELSE IF rec = "todos_completed" THEN <<"tool_call_update", "plan">>
  ELSE <<>>

PromptKinds == {"text", "builtin"}
\* outcomes of client.requestPermission: three option ids, an outcome that
\* is not "selected", an option id the agent did not offer
PermissionResponses == {"allow_once", "allow_always", "reject", "cancelled", "bogus"}

\* A run: its flags, the line the reader is about to handle, whether onEvent
\* is awaiting client.sessionUpdate, and what the reader has seen.  The
\* reader hands lines to onEvent one at a time in the order written
\* (readPromptStream), so the lines written and not yet handled are
\* represented by the one at the head.
NoRun ==
  [st |-> "none", force |-> FALSE, modeFlag |-> None, line |-> None, busy |-> FALSE,
   nlines |-> 0, resultEvent |-> None, killed |-> {}, resume |-> None]

NoLoc ==
  [kind |-> None, attempt |-> 0, rejectedToolCalls |-> <<>>, chunks |-> FALSE,
   open |-> FALSE,
   firstStop |-> None]

\* what prompt() saw when attempt #1 returned
NoFirst ==
  [stop |-> None, cancelled |-> FALSE, modeId |-> None, rejected |-> <<>>,
   open |-> FALSE]

\* The record of one prompt() invocation, kept for the properties: runs
\* started, permission requests sent (the toolCallId each carried), what
\* each attempt returned, the permission outcome and the flag when it came,
\* cancel requests seen, the response, current_mode_update notifications,
\* whether every record of attempt #1 had been handled and its notifications
\* sent when its completion settled.  `first.open` tells whether attempt #1
\* left an entry in its toolUseCache.
NoHist ==
  [runs |-> 0, perm |-> <<>>, first |-> NoFirst, stops |-> <<>>, decision |-> None,
   decisionCancelled |-> FALSE, cancelSeen |-> FALSE, cancelInPerm |-> FALSE,
   response |-> None, retryForce |-> FALSE, secondRejected |-> FALSE,
   modeUpdates |-> 0, modeNotified |-> None,
   slashCancelled |-> None, slashChunks |-> 0, firstDrained |-> FALSE]

\* parseDefaultMode: CURSOR_ACP_DEFAULT_MODE when it names a supported mode
ParseDefaultMode(value) ==
  IF value = None THEN DEFAULT_MODE_ID
  ELSE IF value \in SUPPORTED_MODE_IDS THEN value
  ELSE DEFAULT_MODE_ID

\* values of CURSOR_ACP_DEFAULT_MODE: unset, a supported mode, anything else
EnvDefaultModes == {None, "plan", "bogus"}
\* mode ids a setSessionMode request carries
RequestedModes == SUPPORTED_MODE_IDS \cup {"bogus"}
\* what follows /mode, None standing for nothing (or for another built-in)
SlashTargets == SUPPORTED_MODE_IDS \cup {None, "bogus"}

\* normalizeModeId: the mode a /mode target names, None (null) for any other
normalizeModeIdAny(value) == value
normalizeModeId(value) ==
  IF value \in SUPPORTED_MODE_IDS THEN value ELSE None

\* What an operation does to session.modeId: the mode after it, the error
\* it throws and the mode of the current_mode_update it sends.
ModeKept(modeId, error) == [modeId |-> modeId, error |-> error, notified |-> None]

\* setSessionMode(params)
setSessionMode(modeId, requested) ==
  IF requested \notin SUPPORTED_MODE_IDS THEN ModeKept(modeId, "invalid_params")
  ELSE [modeId |-> requested, error |-> None, notified |-> None]

\* handleSlashCommand, case "mode", with onModeChanged
SlashMode(modeId, target) ==
  LET nextMode == normalizeModeId(target)
  IN  IF target = None \/ nextMode = None THEN ModeKept(modeId, None)
      ELSE [modeId |-> nextMode, error |-> None, notified |-> nextMode]

\* onEvent: mapped.currentModeId of a system/init record
ModeEcho(modeId, currentModeId) ==
  IF currentModeId \in SUPPORTED_MODE_IDS
    THEN [modeId |-> currentModeId, error |-> None, notified |-> None]
    ELSE ModeKept(modeId, None)

\* createSession
AgentInit ==
  /\ session \in { [modeId |-> ParseDefaultMode(v), cancelled |-> FALSE,
                    activeRun |-> NoActiveRun, backendSessionId |-> "chat-1"] :
                  v \in EnvDefaultModes }
  /\ pc = [p \in Slots |-> "idle"]
  /\ loc = [p \in Slots |-> NoLoc]
  /\ run = [p \in Slots |-> NoRun]
  /\ requests = 0
  /\ hist = [p \in Slots |-> NoHist]
  /\ grant = "none"

InFlight(p) == pc[p] \notin {"idle", "done"}
NoPromptInFlight == \A q \in Slots : ~InFlight(q)

\* modeToRunnerOptions
ModeFlagOfMode(modeId, forceRetry) ==
  IF modeId \in {"plan", "ask"} THEN modeId ELSE None
ModeFlagOf(modeId, forceRetry) ==
  IF forceRetry THEN None
  ELSE IF modeId \in {"plan", "ask"} THEN modeId ELSE None
ForceOf(modeId, forceRetry) ==
  forceRetry \/ modeId = "bypassPermissions"

\* the locals runPromptAttempt declares: rejectedToolCalls, toolUseCache
\* (whether it holds an entry for the call id) and assistantTextChunks
KeptAttemptLocals(l) == l
FreshAttemptLocals(l) ==
  [l EXCEPT !.rejectedToolCalls = <<>>, !.chunks = FALSE, !.open = FALSE]

\* runPromptAttempt up to `await run.completed`: fresh rejectedToolCalls,
\* toolUseCache and assistantTextChunks, runner.startPrompt, activeRun = run
StartRun(p, forceRetry, h) ==
  /\ run' = [run EXCEPT ![p] =
       [NoRun EXCEPT !.st = "active",
                     !.force = ForceOf(session.modeId, forceRetry),
                     !.modeFlag = ModeFlagOf(session.modeId, forceRetry),
                     !.resume = session.backendSessionId]]
  /\ loc' = [loc EXCEPT ![p] = [FreshAttemptLocals(@) EXCEPT !.attempt = @ + 1]]
  /\ pc' = [pc EXCEPT ![p] = "awaitRun"]
  /\ hist' = [h EXCEPT ![p].runs = @ + 1,
                       ![p].retryForce = ForceOf(session.modeId, forceRetry)]

\* prompt() returns a response or throws; its locals and its run handle die
Return(p, resp, h) ==
  /\ pc' = [pc EXCEPT ![p] = "done"]
  /\ hist' = [h EXCEPT ![p].response = resp]
  /\ loc' = [loc EXCEPT ![p] = NoLoc]

\* agent.prompt(params) is called
PromptCall(p, kind) ==
  /\ pc[p] \in {"idle", "done"}
  /\ \A q \in Slots : q < p => InFlight(q)
  /\ requests < MaxRequests
  /\ requests' = requests + 1
  /\ pc' = [pc EXCEPT ![p] = "authStatus"]
  /\ loc' = [loc EXCEPT ![p] = [NoLoc EXCEPT !.kind = kind]]
  /\ hist' = [hist EXCEPT ![p] = NoHist]
  /\ run' = [run EXCEPT ![p] = NoRun]
  /\ UNCHANGED session
  /\ UNCHANGED << readerVars, mapperVars, classifyVars, pureVars, grant >>

\* await this.auth.status() returns; session.cancelled = false
AuthReturn(p, loggedIn) ==
  /\ pc[p] = "authStatus"
  /\ IF loggedIn
     THEN /\ session' = [session EXCEPT !.cancelled = FALSE]
          /\ pc' = [pc EXCEPT ![p] = "recordUser"]
          /\ UNCHANGED << hist, loc >>
     ELSE /\ Return(p, "error", hist)
          /\ UNCHANGED session
  /\ UNCHANGED << run, requests >>
  /\ UNCHANGED << readerVars, mapperVars, classifyVars, pureVars, grant >>

\* await recordUserMessage settles.  Stored: a built-in command goes to
\* handleSlashCommand, anything else to attempt #1.  appendSessionEntry
\* rejected (mkdir or appendFile failed): nothing catches it and prompt()
\* rejects.
RecordUserReturn(p, stored) ==
  /\ pc[p] = "recordUser"
  /\ IF ~stored
     THEN /\ Return(p, "error", hist)
          /\ UNCHANGED << session, run >>
     ELSE IF loc[p].kind = "builtin"
     THEN /\ pc' = [pc EXCEPT ![p] = "slashHandler"]
          /\ UNCHANGED << session, loc, run, hist >>
     ELSE /\ StartRun(p, FALSE, hist)
          /\ session' = [session EXCEPT !.activeRun = p]
  /\ UNCHANGED requests
  /\ UNCHANGED << readerVars, mapperVars, classifyVars, pureVars, grant >>

\* if (session.cancelled) after handleSlashCommand returned handled
CancelledAfterHandlerIgnored(sess) == FALSE
CancelledAfterHandler(sess) == sess.cancelled

\* await handleSlashCommand returns handled; /mode <m> has set the mode and
\* sent current_mode_update through onModeChanged.  Every built-in returns
\* a response text, sent as one agent_message_chunk.
SlashReturn(p, target) ==
  /\ pc[p] = "slashHandler"
  /\ session' = [session EXCEPT !.modeId = SlashMode(@, target).modeId]
  /\ grant' = IF SlashMode(session.modeId, target).notified = None THEN grant ELSE "none"
  /\ LET h0 == IF SlashMode(session.modeId, target).notified = None THEN hist
               ELSE [hist EXCEPT ![p].modeUpdates = @ + 1]
         h == [h0 EXCEPT ![p].slashCancelled = IF session.cancelled THEN "yes" ELSE "no"]
     IN
     IF CancelledAfterHandler(session)
     THEN Return(p, "cancelled", h)
     ELSE /\ pc' = [pc EXCEPT ![p] = "slashRespond"]
          /\ hist' = [h EXCEPT ![p].slashChunks = @ + 1]
          /\ UNCHANGED loc
  /\ UNCHANGED << run, requests >>
  /\ UNCHANGED << readerVars, mapperVars, classifyVars, pureVars >>

\* await client.sessionUpdate(response text) returns
SlashRespondReturn(p) ==
  /\ pc[p] = "slashRespond"
  /\ Return(p, IF session.cancelled THEN "cancelled" ELSE "end_turn", hist)
  /\ UNCHANGED << session, run, requests >>
  /\ UNCHANGED << readerVars, mapperVars, classifyVars, pureVars, grant >>

\* requestPermissionToRetry: the decision a response stands for
ApprovedOfLenient(resp) ==
  IF resp \in {"allow_always"} THEN resp ELSE "allow_once"
ApprovedOf(resp) ==
  IF resp \in {"allow_once", "allow_always"} THEN resp ELSE "reject"

\* the modes in which prompt() asks before retrying
AsksPermissionAlways(modeId) == TRUE
AsksPermission(modeId) == modeId \in {"default", "acceptEdits"}

\* which rejected call the permission request is about
RejectedToAsk(rejected) == rejected[1]

\* prompt() retries only after attempt #1
MayRetryAnyAttempt(attempt) == TRUE
MayRetry(attempt) == attempt = 1

\* prompt()'s check of the flag once the permission decision is in
CancelledAfterPermission(sess) == sess.cancelled

\* prompt() once runPromptAttempt has returned `stop` (or thrown "error")
AttemptReturned(p, stop, sess, h) ==
  LET h1 == [h EXCEPT
               ![p].stops = Append(@, stop),
               ![p].first = IF loc[p].attempt = 1
                            THEN [stop |-> stop, cancelled |-> sess.cancelled,
                                  modeId |-> sess.modeId,
                                  rejected |-> loc[p].rejectedToolCalls,
                                  open |-> loc[p].open]
                            ELSE @]
  IN IF stop = "error"
     THEN Return(p, "error", h1)
     ELSE IF ~MayRetry(loc[p].attempt)
     THEN Return(p, stop, h1)
     ELSE IF stop = "cancelled" \/ sess.cancelled
     THEN Return(p, "cancelled", h1)
     ELSE IF /\ stop = "end_turn"
             /\ AsksPermission(sess.modeId)
             /\ Len(loc[p].rejectedToolCalls) > 0
     THEN /\ pc' = [pc EXCEPT ![p] = "awaitPermission"]
          /\ loc' = [loc EXCEPT ![p].firstStop = stop]
          /\ hist' = [h1 EXCEPT
                        ![p].perm = Append(@, RejectedToAsk(loc[p].rejectedToolCalls))]
     ELSE Return(p, stop, h1)

\* ------------------------------------------------------------------------
\* runPromptAttempt: the classification of the result event.  A text is a
\* sequence of pieces, so that `includes` is a search; a field that is
\* missing or no string is NotString.
\* ------------------------------------------------------------------------
String(pieces) == [isString |-> TRUE, text |-> pieces]
NotString == [isString |-> FALSE, text |-> <<>>]

Subtypes ==
  { String(<<"success">>),
    String(<<"error_", "max_", "turn", "s">>),
    String(<<"error_", "max_", "budget", "_usd">>),
    String(<<"error_", "max_", "structured", "_output_retries">>),
    String(<<"error_", "during_execution">>),
    String(<<"error_", "max_">>),
    String(<<"turn", "max_">>),
    String(<<>>),
    NotString }

\* is_error: missing, true, false, or a truthy value that is no boolean
IsErrorValues == {"absent", "true", "false", "truthy"}

ResultFields == { String(<<"boom">>), String(<<>>), NotString }

ResultEvents == [subtype : Subtypes, is_error : IsErrorValues, result : ResultFields]

\* subtype.includes(marker)
Includes(text, marker) ==
  \E i \in 1..(Len(text) - Len(marker) + 1) :
    SubSeq(text, i, i + Len(marker) - 1) = marker

LimitMarkers == { <<"max_", "turn">>, <<"max_", "budget">>, <<"max_", "structured">> }

\* resultEvent.is_error === true
IsErrorFlagTruthy(v) == v \in {"true", "truthy"}
IsErrorFlag(v) == v = "true"

CliFailed == <<"Cursor CLI failed">>
NoData == <<>>
NoOutcome == [stopReason |-> None, data |-> NoData]

\* resultText || "Cursor CLI failed"
OrCliFailed(text) == IF text = <<>> THEN CliFailed ELSE text

\* lines 634-664: the stop reason returned, or "error" with the data of the
\* internal error thrown
ClassifyResult(ev) ==
  LET subtype == IF ev.subtype.isString THEN ev.subtype.text ELSE <<>>
      isError == IsErrorFlag(ev.is_error)
      resultText == IF ev.result.isString THEN ev.result.text ELSE subtype
  IN IF subtype = <<"success">> /\ ~isError
     THEN [stopReason |-> "end_turn", data |-> NoData]
     ELSE IF \E marker \in LimitMarkers : Includes(subtype, marker)
     THEN [stopReason |-> "max_turn_requests", data |-> NoData]
     ELSE [stopReason |-> "error", data |-> OrCliFailed(resultText)]

\* lines 619-664 for a run that resolved: the cancelled flag comes first
AttemptOutcomeOf(in) ==
  IF in.cancelled
  THEN [stopReason |-> "cancelled", data |-> NoData]
  ELSE ClassifyResult(in.event)

\* the result records the child of the agent model writes
ResultEventOf(res) ==
  IF res = "result:success"
  THEN [subtype |-> String(<<"success">>), is_error |-> "false",
        result |-> String(<<"boom">>)]
  ELSE IF res = "result:error_max_turns"
  THEN [subtype |-> String(<<"error_", "max_", "turn", "s">>), is_error |-> "true",
        result |-> NotString]
  ELSE [subtype |-> String(<<"error_", "during_execution">>), is_error |-> "true",
        result |-> String(<<"boom">>)]

\* runPromptAttempt's classification of the result event
StopOfResult(res) == ClassifyResult(ResultEventOf(res)).stopReason

\* session.activeRun = undefined, after the await and in the catch block
WithActiveRunKept(sess) == sess
WithoutActiveRun(sess) == [sess EXCEPT !.activeRun = NoActiveRun]

\* runPromptAttempt after `await run.completed` settled with `outcome`
\* (resolved or rejected): activeRun is cleared, the flag is read, the result
\* event is classified; a successful attempt with assistant text awaits
\* recordAssistantMessage before it returns.
AttemptSettled(p, outcome, res) ==
  LET sess == WithoutActiveRun(session)
      h == [hist EXCEPT
              ![p].secondRejected =
                 @ \/ (loc[p].attempt = 2 /\ Len(loc[p].rejectedToolCalls) > 0),
              ![p].firstDrained =
                 IF loc[p].attempt = 1 THEN run[p].line = None /\ ~run[p].busy ELSE @]
      stop == IF sess.cancelled THEN "cancelled"
              ELSE IF outcome = "rejected" THEN "error"
              ELSE StopOfResult(res)
  IN /\ session' = sess
     /\ IF stop = "end_turn" /\ loc[p].chunks
        THEN /\ pc' = [pc EXCEPT ![p] = "recordAssistant"]
             /\ hist' = h
             /\ UNCHANGED loc
        ELSE AttemptReturned(p, stop, sess, h)

\* the run's record once run.completed has settled
Settled(r) ==
  [NoRun EXCEPT !.st = "settled", !.force = r.force, !.modeFlag = r.modeFlag,
                !.resume = r.resume]

\* the child of p's run writes a line and the reader's queue reaches it
ChildWrite(p, rec, maxLines) ==
  /\ run[p].st = "active"
  /\ run[p].line = None
  /\ ~run[p].busy
  /\ run[p].nlines < maxLines
  /\ run' = [run EXCEPT ![p].line = rec, ![p].nlines = @ + 1]
  /\ UNCHANGED << session, pc, loc, requests, hist >>
  /\ UNCHANGED << readerVars, mapperVars, classifyVars, pureVars, grant >>

\* session_id carried by a system/init record: a text or no string
SessionIdOf(rec) ==
  IF rec = "init:default" THEN String(<<"chat-2">>)
  ELSE IF rec = "init:plan" THEN String(<<"chat-3">>)
  ELSE IF rec = "init:bogus" THEN String(<<>>)
  ELSE NotString

\* mapCursorEventToAcp: backendSessionId of a system/init record
MappedBackendSessionId(id) ==
  IF id.isString /\ id.text # <<>> THEN id.text[1] ELSE None

\* if (mapped.backendSessionId) session.backendSessionId = ...
AdoptedAlways(current, id) == id
Adopted(current, id) == IF id # None THEN id ELSE current

\* processLine of the line at the head of the queue, with the onEvent
\* callback of runPromptAttempt up to its first await.  A line that is not
\* JSON rejects the chain: SIGKILL, fail, and run.completed rejects.
HandleRecord(p) ==
  /\ run[p].st = "active"
  /\ run[p].line # None
  /\ LET rec == run[p].line IN
     IF rec = "garbage"
     THEN /\ run' = [run EXCEPT ![p] = Settled(run[p])]
          /\ AttemptSettled(p, "rejected", None)
          /\ UNCHANGED grant
     ELSE /\ run' = [run EXCEPT ![p].line = None,
                                ![p].resultEvent = IF rec \in ResultRecords THEN rec ELSE @,
                                ![p].busy = NotificationsOf(rec) # <<>>]
          /\ session' =
               IF rec \in InitRecords
               THEN [session EXCEPT
                       !.backendSessionId =
                          Adopted(@, MappedBackendSessionId(SessionIdOf(rec))),
                       !.modeId = ModeEcho(@, PermissionModeOf(rec)).modeId]
               ELSE session
          /\ grant' = IF /\ rec \in InitRecords
                         /\ PermissionModeOf(rec) \in SUPPORTED_MODE_IDS
                         /\ grant # "none"
                      THEN "echoed" ELSE grant
          /\ loc' = [loc EXCEPT
               ![p].rejectedToolCalls =
                  IF rec = "tool_rejected" THEN Append(@, run[p].nlines) ELSE @,
               ![p].chunks = @ \/ rec = "assistant",
               ![p].open = IF rec = "tool_started" THEN TRUE
                           ELSE IF rec = "tool_rejected" THEN FALSE
                           ELSE @]
          /\ UNCHANGED << pc, hist >>
  /\ UNCHANGED requests
  /\ UNCHANGED << readerVars, mapperVars, classifyVars, pureVars >>

\* await client.sessionUpdate(notification) returns inside onEvent
NotificationReturn(p) ==
  /\ run[p].st = "active"
  /\ run[p].busy
  /\ run' = [run EXCEPT ![p].busy = FALSE]
  /\ UNCHANGED << session, pc, loc, requests, hist >>
  /\ UNCHANGED << readerVars, mapperVars, classifyVars, pureVars, grant >>

\* the child exits, and the close handler finds the queue drained:
\* run.completed resolves with the result event or rejects for want of one
RunCloseEarly(p) ==
  /\ run[p].st = "active"
  /\ run' = [run EXCEPT ![p] = Settled(run[p])]
  /\ AttemptSettled(p, IF run[p].resultEvent = None THEN "rejected" ELSE "resolved",
                    run[p].resultEvent)
  /\ UNCHANGED requests
  /\ UNCHANGED << readerVars, mapperVars, classifyVars, pureVars, grant >>
RunClose(p) ==
  /\ run[p].st = "active"
  /\ run[p].line = None
  /\ ~run[p].busy
  /\ run' = [run EXCEPT ![p] = Settled(run[p])]
  /\ AttemptSettled(p, IF run[p].resultEvent = None THEN "rejected" ELSE "resolved",
                    run[p].resultEvent)
  /\ UNCHANGED requests
  /\ UNCHANGED << readerVars, mapperVars, classifyVars, pureVars, grant >>

\* await recordAssistantMessage settles.  Stored: runPromptAttempt returns
\* end_turn.  appendSessionEntry rejected: the catch block returns
\* cancelled when the flag is set and throws an internal error otherwise.
RecordAssistantReturn(p, stored) ==
  /\ pc[p] = "recordAssistant"
  /\ AttemptReturned(p, IF stored THEN "end_turn"
                        ELSE IF session.cancelled THEN "cancelled"
                        ELSE "error",
                     session, hist)
  /\ UNCHANGED << session, run, requests >>
  /\ UNCHANGED << readerVars, mapperVars, classifyVars, pureVars, grant >>

\* allow_always: session.modeId = "bypassPermissions"
ModeAfterAlways(modeId) == "bypassPermissions"

\* await requestPermissionToRetry returns
PermissionResolve(p, resp) ==
  /\ pc[p] = "awaitPermission"
  /\ LET approved == ApprovedOf(resp)
         h == [hist EXCEPT ![p].decision = resp,
                           ![p].decisionCancelled = session.cancelled]
     IN IF CancelledAfterPermission(session)
        THEN /\ Return(p, "cancelled", h)
             /\ UNCHANGED << session, run, grant >>
        ELSE IF approved = "allow_always"
        THEN /\ session' = [session EXCEPT !.modeId = ModeAfterAlways(@)]
             /\ pc' = [pc EXCEPT ![p] = "modeNotify"]
             /\ hist' = [h EXCEPT ![p].modeUpdates = @ + 1,
                                  ![p].modeNotified = ModeAfterAlways(session.modeId)]
             /\ grant' = "granted"
             /\ UNCHANGED << loc, run >>
        ELSE IF approved = "allow_once"
        THEN /\ StartRun(p, TRUE, h)
             /\ session' = [session EXCEPT !.activeRun = p]
             /\ UNCHANGED grant
        ELSE /\ Return(p, loc[p].firstStop, h)
             /\ UNCHANGED << session, run, grant >>
  /\ UNCHANGED requests
  /\ UNCHANGED << readerVars, mapperVars, classifyVars, pureVars >>

\* await client.sessionUpdate(current_mode_update) returns: attempt #2
ModeNotifyReturn(p) ==
  /\ pc[p] = "modeNotify"
  /\ StartRun(p, TRUE, hist)
  /\ session' = [session EXCEPT !.activeRun = p]
  /\ UNCHANGED requests
  /\ UNCHANGED << readerVars, mapperVars, classifyVars, pureVars, grant >>

\* agent.cancel(params)
Cancel ==
  /\ requests < MaxRequests
  /\ requests' = requests + 1
  /\ session' = [session EXCEPT !.cancelled = TRUE]
  /\ run' = IF session.activeRun = NoActiveRun THEN run
            ELSE [run EXCEPT ![session.activeRun].killed = @ \cup {"SIGTERM"}]
  /\ hist' = [p \in Slots |->
                IF InFlight(p)
                THEN [hist[p] EXCEPT !.cancelSeen = TRUE,
                                     !.cancelInPerm = @ \/ pc[p] = "awaitPermission"]
                ELSE hist[p]]
  /\ UNCHANGED << pc, loc >>
  /\ UNCHANGED << readerVars, mapperVars, classifyVars, pureVars, grant >>

\* agent.setSessionMode(params): an unsupported mode id throws
SetSessionMode(m) ==
  /\ requests < MaxRequests
  /\ requests' = requests + 1
  /\ session' = [session EXCEPT !.modeId = setSessionMode(@, m).modeId]
  /\ grant' = IF setSessionMode(session.modeId, m).error = None THEN "none" ELSE grant
  /\ UNCHANGED << pc, loc, run, hist >>
  /\ UNCHANGED << readerVars, mapperVars, classifyVars, pureVars >>

\* ------------------------------------------------------------------------
\* mapCursorEventToAcp: tool_call records
\* ------------------------------------------------------------------------
MaxEvents == 3   \* tool_call records mapped in one attempt

\* call_id values: texts, two of which differ only in a white-space
\* character, and a record without call_id
RawCallIds == { <<"a", " ", "b">>, <<"a", "_", "b">>, <<"c">> }
NoCallId == <<>>

\* trimmed.replace(/\s+/g, "_")
RECURSIVE ReplaceWs(_, _)
ReplaceWs(text, inRun) ==
  IF text = <<>> THEN <<>>
  ELSE IF IsWs(Head(text))
  THEN (IF inRun THEN <<>> ELSE <<"_">>) \o ReplaceWs(Tail(text), TRUE)
  ELSE <<Head(text)>> \o ReplaceWs(Tail(text), FALSE)

sanitizeToolCallId(raw) ==
  IF Trim(raw) = <<>> THEN <<"tool-call">> ELSE ReplaceWs(Trim(raw), FALSE)

\* sanitizeToolCallId(rawCallId || "tool-call")
ToolCallIdOf(event) == sanitizeToolCallId(event.call_id)
SanitizedIds == { sanitizeToolCallId(r) : r \in RawCallIds \cup {NoCallId} }

\* args of a tool call: an object with a path, with a command, with
\* neither; node.args that is no object stands for {}
EmptyArgs == [path |-> "", command |-> ""]
ArgsValues == { [path |-> "/f", command |-> ""], [path |-> "", command |-> "ls"] }

\* node.result: no object (undefined), or an object that may carry an error
\* object and a `rejected` that is an object or something else
\* result.success.todos: no array, or an array of items; an item is an
\* object with a content and a status (strings or not), or no object
NoTodos == [isArray |-> FALSE, items |-> <<>>]
Todos(items) == [isArray |-> TRUE, items |-> items]
Todo(content, status) == [isObject |-> TRUE, content |-> content, status |-> status]
NotATodo == [isObject |-> FALSE, content |-> NotString, status |-> NotString]
TodoLists ==
  { Todos(<< Todo(String(<<"Inspect repo">>), String(<<"TODO_STATUS_PENDING">>)),
             Todo(String(<<"b">>), String(<<"completed">>)),
             Todo(String(<<"c">>), String(<<"TODO_STATUS_IN_PROGRESS">>)) >>),
    Todos(<< NotATodo,
             Todo(NotString, String(<<"in_progress">>)),
             Todo(String(<<"d">>), String(<<"TODO_STATUS_COMPLETED">>)) >>),
    Todos(<< Todo(String(<<"e">>), String(<<"pending">>)),
             Todo(String(<<"f">>), String(<<"cancelled">>)),
             Todo(String(<<"g">>), NotString) >>) }

NoResult == [defined |-> FALSE, error |-> FALSE, rejected |-> "absent", todos |-> NoTodos]
ResultValues ==
  { NoResult,
    [defined |-> TRUE, error |-> TRUE, rejected |-> "absent", todos |-> NoTodos],
    [defined |-> TRUE, error |-> FALSE, rejected |-> "object", todos |-> NoTodos],
    [defined |-> TRUE, error |-> TRUE, rejected |-> "notObject", todos |-> NoTodos] }
  \cup { [defined |-> TRUE, error |-> FALSE, rejected |-> "absent", todos |-> t] :
           t \in TodoLists }

\* mapTodoStatus
mapTodoStatusUpperOnly(status) ==
  IF status = <<"TODO_STATUS_COMPLETED">> THEN "completed"
  ELSE IF status = <<"TODO_STATUS_IN_PROGRESS">> THEN "in_progress"
  ELSE "pending"
mapTodoStatus(status) ==
  IF status \in { <<"TODO_STATUS_COMPLETED">>, <<"completed">> } THEN "completed"
  ELSE IF status \in { <<"TODO_STATUS_IN_PROGRESS">>, <<"in_progress">> } THEN "in_progress"
  ELSE "pending"

\* planEntriesFromCursorTodos: the items that are objects, in order
RECURSIVE PlanEntriesOf(_)
PlanEntriesOf(items) ==
  IF items = <<>> THEN <<>>
  ELSE LET todo == Head(items)
       IN (IF todo.isObject
           THEN << [content |-> IF todo.content.isString THEN todo.content.text
                                ELSE <<"Untitled task">>,
                    status |-> mapTodoStatus(IF todo.status.isString THEN todo.status.text
                                             ELSE <<>>),
                    priority |-> "medium"] >>
           ELSE <<>>) \o PlanEntriesOf(Tail(items))

planEntriesFromCursorTodos(result) ==
  IF result.defined /\ result.todos.isArray THEN PlanEntriesOf(result.todos.items) ELSE <<>>

\* event.tool_call: an object whose first key names the tool and holds an
\* object, or anything else (key None)
ToolNames == {"readToolCall", "shellToolCall", "updateTodosToolCall"}
Malformed == [key |-> None, args |-> EmptyArgs, result |-> NoResult]
ToolCallValues ==
  { [key |-> k, args |-> a, result |-> r] :
      k \in ToolNames, a \in ArgsValues, r \in ResultValues } \cup {Malformed}

\* extractCursorToolPayload; NoPayload is null
NoPayload == [toolName |-> None, args |-> EmptyArgs, result |-> NoResult]
extractCursorToolPayload(toolCall) ==
  IF toolCall.key = None THEN NoPayload
  ELSE [toolName |-> toolCall.key, args |-> toolCall.args, result |-> toolCall.result]

\* isRejectedToolResult
isRejectedToolResultOnError(result) == result.defined /\ (result.error \/ result.rejected # "absent")
isRejectedToolResult(result) == result.defined /\ result.rejected = "object"

\* toolInfoFromCursorToolCall(...).title; "bq" is a backquote
ToolTitle(toolName, args) ==
  IF toolName = "shellToolCall"
  THEN (IF args.command # "" THEN <<"bq", args.command, "bq">> ELSE <<"Shell">>)
  ELSE IF toolName = "readToolCall"
  THEN (IF args.path # "" THEN <<"Read", args.path>> ELSE <<"Read">>)
  ELSE <<"Update TODOs">>

NoRejected == [present |-> FALSE, toolCallId |-> <<>>, title |-> <<>>, rawInput |-> EmptyArgs]
NoMapping == [notifications |-> <<>>, rejectedToolCall |-> NoRejected]

\* event.message: an object or not, its content an array or not, the items
\* of the array objects with a type and a text, or null
NoMessage == [isObject |-> FALSE, isArray |-> FALSE, items |-> <<>>]
Segment(type, text) == [isObject |-> TRUE, type |-> type, text |-> text]
NullSegment == [isObject |-> FALSE, type |-> None, text |-> NotString]
Segments ==
  { Segment("text", String(<<"a">>)), Segment("text", String(<<"b">>)),
    Segment("text", String(<<>>)), Segment("text", NotString),
    Segment("tool_use", String(<<"x">>)), NullSegment }
MaxSegments == 2   \* items of one message content
Messages ==
  { NoMessage, [isObject |-> TRUE, isArray |-> FALSE, items |-> <<>>] }
  \cup [isObject : {TRUE}, isArray : {TRUE}, items : BoundedSeq(Segments, MaxSegments)]

\* the tool_call records of the model; a started record carries no result
ToolCallEvents ==
  { e \in [type : {"tool_call"}, subtype : {"started", "completed"},
           call_id : RawCallIds \cup {NoCallId}, tool_call : ToolCallValues,
           text : {NotString}, message : {NoMessage}] :
      e.subtype = "started" => e.tool_call.result = NoResult }
NoEvent ==
  [type |-> None, subtype |-> None, call_id |-> NoCallId, tool_call |-> Malformed,
   text |-> NotString, message |-> NoMessage]

\* records the mapper has no branch for: a tool_call of another subtype, and
\* records of other types, whatever else they carry
RejectedRead ==
  [key |-> "readToolCall", args |-> [path |-> "/f", command |-> ""],
   result |-> [defined |-> TRUE, error |-> FALSE, rejected |-> "object", todos |-> NoTodos]]
UnknownEvents ==
  [type : {"tool_call"}, subtype : {"progress", None}, call_id : { <<"c">> },
   tool_call : {RejectedRead, Malformed}, text : {NotString}, message : {NoMessage}]
  \cup [type : {"user", None}, subtype : {"completed", "started", None},
        call_id : { <<"c">> }, tool_call : {RejectedRead},
        text : {NotString}, message : {NoMessage}]

\* system, result, thinking and assistant records, whatever else they carry
StreamEvents ==
  [type : {"system"}, subtype : {"init", "status"}, call_id : { <<"c">> },
   tool_call : {RejectedRead}, text : {String(<<"t">>)}, message : {NoMessage}]
  \cup [type : {"result"}, subtype : {"success"}, call_id : { <<"c">> },
        tool_call : {RejectedRead}, text : {String(<<"t">>)}, message : {NoMessage}]
  \cup [type : {"thinking"}, subtype : {"delta", "completed"}, call_id : { <<"c">> },
        tool_call : {RejectedRead},
        text : {NotString, String(<<>>), String(<<"t">>)}, message : {NoMessage}]
  \cup [type : {"assistant"}, subtype : {None}, call_id : { <<"c">> },
        tool_call : {RejectedRead}, text : {String(<<"t">>)}, message : Messages]

\* assistantTextChunks
RECURSIVE TextsOfSegments(_)
TextsOfSegments(items) ==
  IF items = <<>> THEN <<>>
  ELSE (IF /\ Head(items).isObject
           /\ Head(items).type = "text"
           /\ Head(items).text.isString
        THEN << Head(items).text.text >> ELSE <<>>)
       \o TextsOfSegments(Tail(items))
assistantTextChunks(event) ==
  IF ~event.message.isObject THEN <<>>
  ELSE IF ~event.message.isArray THEN <<>>
  ELSE TextsOfSegments(event.message.items)

\* a chunk notification
Chunk(kind, text) ==
  [sessionUpdate |-> kind, toolCallId |-> <<>>, status |-> None, toolName |-> None,
   rawInput |-> EmptyArgs, title |-> <<>>, entries |-> <<>>, text |-> text]

\* mapCursorEventToAcp: the notifications of a record that is no tool_call
ChunksOfEverySegment(event) ==
  IF event.type = "thinking" /\ event.subtype = "delta"
  THEN << Chunk("agent_thought_chunk", event.text.text) >>
  ELSE IF event.type = "assistant"
  THEN [i \in 1..Len(event.message.items) |->
          Chunk("agent_message_chunk", event.message.items[i].text.text)]
  ELSE <<>>
ChunksOf(event) ==
  IF event.type = "system" /\ event.subtype = "init" THEN <<>>
  ELSE IF event.type = "thinking" /\ event.subtype = "delta"
  THEN (IF event.text.isString /\ event.text.text # <<>>
        THEN << Chunk("agent_thought_chunk", event.text.text) >> ELSE <<>>)
  ELSE IF event.type = "assistant"
  THEN [i \in 1..Len(assistantTextChunks(event)) |->
          Chunk("agent_message_chunk", assistantTextChunks(event)[i])]
  ELSE <<>>

\* toolUseCache[toolCallId] ?? { toolCallId, payload }
CachedOrOwn(cache, toolCallId, payload) ==
  IF cache[toolCallId] = NoPayload THEN payload ELSE cache[toolCallId]

\* delete context.toolUseCache[toolCallId]
DeleteEntryKept(cache, toolCallId) == cache
DeleteEntry(cache, toolCallId) == [cache EXCEPT ![toolCallId] = NoPayload]

\* the rejectedToolCall of a completed record
RejectedOfOwnPayload(toolCallId, cached, payload) ==
  [present |-> TRUE, toolCallId |-> toolCallId,
   title |-> ToolTitle(payload.toolName, payload.args), rawInput |-> payload.args]
RejectedOf(toolCallId, cached, payload) ==
  [present |-> TRUE, toolCallId |-> toolCallId,
   title |-> ToolTitle(cached.toolName, cached.args), rawInput |-> cached.args]

\* mapCursorEventToAcp for a record of type tool_call
MapToolCall(event) ==
  LET toolCallId == ToolCallIdOf(event)
      payload == extractCursorToolPayload(event.tool_call)
      cached == CachedOrOwn(toolUseCache, toolCallId, payload)
      rejected == isRejectedToolResult(payload.result)
  IN /\ nEvents < MaxEvents
     /\ nEvents' = nEvents + 1
     /\ lastEvent' = event
     /\ IF payload = NoPayload
        THEN /\ mapped' = NoMapping
             /\ UNCHANGED << toolUseCache, openCalls >>
        ELSE IF event.subtype = "started"
        THEN /\ toolUseCache' = [toolUseCache EXCEPT ![toolCallId] = payload]
             /\ mapped' =
                  [notifications |->
                     << [sessionUpdate |-> "tool_call", toolCallId |-> toolCallId,
                         status |-> "pending", toolName |-> payload.toolName,
                         rawInput |-> payload.args,
                         title |-> ToolTitle(payload.toolName, payload.args),
                         entries |-> <<>>, text |-> <<>>] >>,
                   rejectedToolCall |-> NoRejected]
             /\ openCalls' = [openCalls EXCEPT ![event.call_id] = payload]
        ELSE IF event.subtype # "completed"
        THEN /\ mapped' = NoMapping
             /\ UNCHANGED << toolUseCache, openCalls >>
        ELSE /\ toolUseCache' = DeleteEntry(toolUseCache, toolCallId)
             /\ mapped' =
                  [notifications |->
                     << [sessionUpdate |-> "tool_call_update", toolCallId |-> toolCallId,
                         status |-> IF rejected THEN "failed" ELSE "completed",
                         toolName |-> cached.toolName, rawInput |-> cached.args,
                         title |-> <<>>, entries |-> <<>>, text |-> <<>>] >>
                     \o (IF cached.toolName = "updateTodosToolCall"
                         THEN << [sessionUpdate |-> "plan", toolCallId |-> <<>>,
                                  status |-> None, toolName |-> None,
                                  rawInput |-> EmptyArgs, title |-> <<>>,
                                  entries |-> planEntriesFromCursorTodos(payload.result),
                                  text |-> <<>>] >>
                         ELSE <<>>),
                   rejectedToolCall |->
                     IF rejected THEN RejectedOf(toolCallId, cached, payload)
                     ELSE NoRejected]
             /\ openCalls' = [openCalls EXCEPT ![event.call_id] = NoPayload]
     /\ UNCHANGED << readerVars, agentVars, classifyVars, pureVars >>

\* a fresh attempt: an empty toolUseCache
MapperInit ==
  /\ toolUseCache = [id \in SanitizedIds |-> NoPayload]
  /\ mapped = NoMapping
  /\ lastEvent = NoEvent
  /\ openCalls = [r \in RawCallIds \cup {NoCallId} |-> NoPayload]
  /\ nEvents = 0

\* the branch the mapper takes for a record
MapEventByPayload(event) == MapToolCall(event)
MapEvent(event) ==
  IF event.type = "tool_call"
  THEN MapToolCall(event)
  ELSE /\ nEvents < MaxEvents
       /\ nEvents' = nEvents + 1
       /\ lastEvent' = event
       /\ mapped' = [notifications |-> ChunksOf(event), rejectedToolCall |-> NoRejected]
       /\ UNCHANGED << toolUseCache, openCalls >>
       /\ UNCHANGED << readerVars, agentVars, classifyVars, pureVars >>

NextMapper ==
  \/ \E event \in ToolCallEvents : MapEvent(event)
  \/ \E event \in UnknownEvents : MapEvent(event)
  \/ \E event \in StreamEvents : MapEvent(event)

\* ------------------------------------------------------------------------
\* runPromptAttempt's classification on its own
\* ------------------------------------------------------------------------
AttemptInputs == [cancelled : BOOLEAN, event : ResultEvents]

\* no function of tools.ts is being called
NoCall == [toolName |-> None]
NoCallInit ==
  /\ call = NoCall
  /\ returned = <<>>

ClassifyInit ==
  /\ attemptInput = [cancelled |-> FALSE,
                     event |-> [subtype |-> String(<<"success">>),
                                is_error |-> "absent", result |-> NotString]]
  /\ attemptOutcome = NoOutcome

\* `await run.completed` resolves and the attempt is classified
ClassifyAttempt ==
  /\ attemptOutcome = NoOutcome
  /\ attemptOutcome' = AttemptOutcomeOf(attemptInput)
  /\ UNCHANGED attemptInput
  /\ UNCHANGED << readerVars, agentVars, mapperVars, pureVars >>

\* ------------------------------------------------------------------------
\* Specifications
\* ------------------------------------------------------------------------
ReaderInit ==
  /\ remaining = ScriptText(script)
  /\ closed = FALSE
  /\ killed = {}
  /\ stdoutBuffer = <<>>
  /\ processing = <<>>
  /\ events = <<>>
  /\ resultEvent = None
  /\ settled = FALSE
  /\ completion = "pending"
  /\ closePc = "idle"
  /\ failure = NoFailure
  /\ errRemaining = script.err
  /\ stderr = <<>>
  /\ exitCode = NullCode
  /\ nchunks = 0
  /\ handled = <<>>
  /\ handlerThrew = FALSE

AgentIdle ==
  /\ AgentInit
  /\ session.modeId = DEFAULT_MODE_ID

\* one run of readPromptStream on its own
InitReader ==
  /\ script \in Scripts
  /\ ReaderInit
  /\ AgentIdle
  /\ MapperInit
  /\ ClassifyInit
  /\ NoCallInit

SpecReader == InitReader /\ [][NextReader]_vars

\* the agent with one session
Init ==
  /\ script = [lines |-> <<>>, tail |-> <<>>, err |-> <<>>]
  /\ ReaderInit
  /\ AgentInit
  /\ MapperInit
  /\ ClassifyInit
  /\ NoCallInit

\* every step but the arrival of a prompt, with the inputs drawn from the
\* given sets
AgentStep(auths, slashModes, recs, maxLines, resps, modes, stores) ==
  \/ \E p \in Slots : \E ok \in auths : AuthReturn(p, ok)
  \/ \E p \in Slots : \E stored \in stores : RecordUserReturn(p, stored)
  \/ \E p \in Slots : \E m \in slashModes : SlashReturn(p, m)
  \/ \E p \in Slots : SlashRespondReturn(p)
  \/ \E p \in Slots : \E rec \in recs : ChildWrite(p, rec, maxLines)
  \/ \E p \in Slots : HandleRecord(p)
  \/ \E p \in Slots : NotificationReturn(p)
  \/ \E p \in Slots : RunClose(p)
  \/ \E p \in Slots : \E stored \in stores : RecordAssistantReturn(p, stored)
  \/ \E p \in Slots : \E resp \in resps : PermissionResolve(p, resp)
  \/ \E p \in Slots : ModeNotifyReturn(p)
  \/ Cancel
  \/ \E m \in modes : SetSessionMode(m)

\* The client sends a prompt only when the previous turn has been answered
\* (the protocol's prompt turn); cancel and setSessionMode arrive at any time.
Next ==
  \/ \E p \in Slots : \E k \in PromptKinds : NoPromptInFlight /\ PromptCall(p, k)
  \/ AgentStep(BOOLEAN, SlashTargets, Records, MaxRunLines,
               PermissionResponses, RequestedModes, BOOLEAN)

Spec == Init /\ [][Next]_vars

\* The client sends prompts whenever it likes: prompt() has no guard against
\* a prompt already in flight.  The other inputs come from smaller sets.
NextOverlap ==
  \/ \E p \in Slots : \E k \in PromptKinds : PromptCall(p, k)
  \/ AgentStep({TRUE}, {None}, {"tool_rejected", "assistant", "result:success"},
               MaxOverlapLines, {"allow_always", "reject"}, {"plan"}, {TRUE})

SpecOverlap == Init /\ [][NextOverlap]_vars

\* mapCursorEventToAcp on its own, over the tool_call records of one attempt
InitMapper ==
  /\ script = [lines |-> <<>>, tail |-> <<>>, err |-> <<>>]
  /\ ReaderInit
  /\ AgentIdle
  /\ MapperInit
  /\ ClassifyInit
  /\ NoCallInit

SpecMapper == InitMapper /\ [][NextMapper]_vars

\* runPromptAttempt's classification on its own, over result events
InitClassify ==
  /\ script = [lines |-> <<>>, tail |-> <<>>, err |-> <<>>]
  /\ ReaderInit
  /\ AgentIdle
  /\ MapperInit
  /\ attemptInput \in AttemptInputs
  /\ attemptOutcome = NoOutcome
  /\ NoCallInit

NextClassify == ClassifyAttempt

SpecClassify == InitClassify /\ [][NextClassify]_vars

\* ------------------------------------------------------------------------
\* tools.ts: the text of tool-call content items.  A text is a sequence of
\* characters; "bq" is a backquote.
\* ------------------------------------------------------------------------
MaxText == 6    \* longest text wrapped

TextChars == {"bq", "x", " ", "\n"}
Texts == BoundedSeq(TextChars, MaxText)

Backticks(k) == [i \in 1..k |-> "bq"]

\* the length of the run of backquotes that starts at position i
RECURSIVE RunAt(_, _)
RunAt(text, i) ==
  IF i > Len(text) \/ text[i] # "bq" THEN 0 ELSE 1 + RunAt(text, i + 1)

\* the positions at which a line starts (the m flag of the pattern)
LineStarts(text) == { i \in 1..Len(text) : i = 1 \/ text[i - 1] = "\n" }

\* the lengths of the matches of /^```+/gm
FenceMatches(text) == { RunAt(text, i) : i \in LineStarts(text) } \ {0, 1, 2}

MaxOf(S) == CHOOSE n \in S : \A m \in S : m <= n

\* the fence markdownEscape arrives at: three backquotes, lengthened past
\* every match
FenceLength(text) == MaxOf({3} \cup { n + 1 : n \in FenceMatches(text) })

markdownEscape(text) ==
  Backticks(FenceLength(text)) \o <<"\n">> \o text
    \o (IF text # <<>> /\ text[Len(text)] = "\n" THEN <<>> ELSE <<"\n">>)
    \o Backticks(FenceLength(text))

\* the two ways a text becomes the text of a content item: textContent wraps
\* it, describeShellCommand delivers a non-empty args.description as it is
\* and no content item for an empty one
ContentMakers == {"textContent", "describeShellCommand"}
ContentTextsOf(maker, text) ==
  IF maker = "textContent" THEN << markdownEscape(text) >>
  ELSE IF text # <<>> THEN << text >>
  ELSE <<>>

\* the content item is built
BuildContent ==
  /\ returned = <<>>
  /\ returned' = << ContentTextsOf(call.maker, call.text) >>
  /\ UNCHANGED call
  /\ UNCHANGED << readerVars, agentVars, mapperVars, classifyVars >>

InitContent ==
  /\ script = [lines |-> <<>>, tail |-> <<>>, err |-> <<>>]
  /\ ReaderInit
  /\ AgentIdle
  /\ MapperInit
  /\ ClassifyInit
  /\ call \in [maker : ContentMakers, text : Texts]
  /\ returned = <<>>

NextContent == BuildContent

SpecContent == InitContent /\ [][NextContent]_vars

\* ------------------------------------------------------------------------
\* tools.ts: the content and locations of a completion update.  A result
\* is absent or an object; its `success` is an object or not; of the
\* fields of `success` the model keeps the two snapshots, the diff string
\* and `content`, the one field of the generic extraction it exercises.
\* ------------------------------------------------------------------------
FieldValues == { NotString, String(<<>>), String(<<"x">>) }
PathValues == { NotString, String(<<>>), String(<<"/f">>) }
NoSuccess ==
  [isObject |-> FALSE, beforeFullFileContent |-> NotString,
   afterFullFileContent |-> NotString, diffString |-> NotString,
   content |-> NotString]
SuccessValues ==
  [isObject : {TRUE}, beforeFullFileContent : FieldValues,
   afterFullFileContent : FieldValues, diffString : FieldValues,
   content : {NotString, String(<<"y">>)}] \cup {NoSuccess}
UndefinedResult == [isObject |-> FALSE, success |-> NoSuccess]
ToolResults == [isObject : {TRUE}, success : SuccessValues] \cup {UndefinedResult}
CompletedToolNames == {"editToolCall", "writeToolCall", "readToolCall", "shellToolCall"}
CompletedCalls == [toolName : CompletedToolNames, path : PathValues, result : ToolResults]

baseToolName(name) ==
  CASE name = "editToolCall" -> "edit"
    [] name = "writeToolCall" -> "write"
    [] name = "readToolCall" -> "read"
    [] name = "shellToolCall" -> "shell"
    [] OTHER -> name

\* content items: a structured diff or a text block
DiffItem(path, oldText, newText) ==
  [type |-> "diff", path |-> path, oldText |-> oldText, newText |-> newText,
   text |-> <<>>]
TextItem(text) ==
  [type |-> "content", path |-> <<>>, oldText |-> <<>>, newText |-> <<>>,
   text |-> text]
textContent(text) == << TextItem(markdownEscape(text)) >>

\* a non-empty string, the test `if (s)` of a value that is a string or null
Truthy(v) == v.isString /\ v.text # <<>>

maybeDiffContentFromEditResult(path, result) ==
  IF ~result.isObject THEN <<>>
  ELSE IF ~result.success.isObject THEN <<>>
  ELSE IF /\ Truthy(path)
          /\ result.success.beforeFullFileContent.isString
          /\ result.success.afterFullFileContent.isString
       THEN << DiffItem(path.text, result.success.beforeFullFileContent.text,
                        result.success.afterFullFileContent.text) >>
  ELSE IF Truthy(result.success.diffString)
       THEN textContent(result.success.diffString.text)
  ELSE <<>>

\* extractTextFromRecord over the fields kept: `content` is the only one
\* of its candidate keys
extractTextFromRecord(success) ==
  IF success.isObject /\ Truthy(success.content) THEN success.content ELSE NotString

\* JSON.stringify(result, null, 2), as the braces around the strings held
\* (key names, quotes and indentation left out)
JsonOfSuccess(success) ==
  IF ~success.isObject THEN <<>>
  ELSE <<"{">>
       \o (IF success.beforeFullFileContent.isString
           THEN success.beforeFullFileContent.text \o <<",">> ELSE <<>>)
       \o (IF success.afterFullFileContent.isString
           THEN success.afterFullFileContent.text \o <<",">> ELSE <<>>)
       \o (IF success.diffString.isString
           THEN success.diffString.text \o <<",">> ELSE <<>>)
       \o (IF success.content.isString THEN success.content.text ELSE <<>>)
       \o <<"}">>
JsonOf(result) == <<"{">> \o JsonOfSuccess(result.success) \o <<"}">>

genericResultContent(result) ==
  IF ~result.isObject THEN <<>>
  ELSE IF extractTextFromRecord(result.success).isString
       THEN textContent(extractTextFromRecord(result.success).text)
  ELSE textContent(JsonOf(result))

extractToolResultOutputText(result) ==
  IF ~result.isObject THEN NotString ELSE extractTextFromRecord(result.success)

NoLocations == <<>>

toolUpdateFromCursorToolResult(toolNameRaw, path, result) ==
  CASE baseToolName(toolNameRaw) = "shell" ->
         [content |-> textContent(
                        IF extractToolResultOutputText(result).isString
                        THEN extractToolResultOutputText(result).text
                        ELSE <<"Command completed with no output.">>),
          locations |-> NoLocations]
    [] baseToolName(toolNameRaw) = "edit" ->
         [content |-> maybeDiffContentFromEditResult(path, result),
          locations |-> IF Truthy(path) THEN << path.text >> ELSE NoLocations]
    [] OTHER ->
         [content |-> genericResultContent(result), locations |-> NoLocations]

\* the completion update of one tool call is built
BuildToolUpdate ==
  /\ returned = <<>>
  /\ returned' = << toolUpdateFromCursorToolResult(call.toolName, call.path, call.result) >>
  /\ UNCHANGED call
  /\ UNCHANGED << readerVars, agentVars, mapperVars, classifyVars >>

InitToolUpdate ==
  /\ script = [lines |-> <<>>, tail |-> <<>>, err |-> <<>>]
  /\ ReaderInit
  /\ AgentIdle
  /\ MapperInit
  /\ ClassifyInit
  /\ call \in CompletedCalls
  /\ returned = <<>>

NextToolUpdate == BuildToolUpdate

SpecToolUpdate == InitToolUpdate /\ [][NextToolUpdate]_vars

\* ------------------------------------------------------------------------
\* One attempt's records on their way to the client: the reader's chain
\* hands the lines to onEvent one at a time, onEvent maps the record and
\* sends its notifications, awaiting each.  `call` holds the lines queued
\* on the chain, the records mapped so far, the notifications of the record
\* in hand still to send, whether a send is awaited and whether the chain
\* has been rejected; `returned` is what
\* the client has received, each notification with the number of its record.
\* ------------------------------------------------------------------------
MaxAttemptRecords == 3   \* records of the attempt

AttemptRecords == {"init:default", "assistant", "tool_started", "todos_completed"}

NoOnEvent ==
  [queue |-> <<>>, mapped |-> <<>>, inHand |-> FALSE, toSend |-> <<>>,
   awaiting |-> FALSE, chainRejected |-> FALSE]

Notification(n, update) == [record |-> n, update |-> update]

\* the notifications of the n-th record, as sent
SendsOf(rec, n) ==
  [i \in 1..Len(NotificationsOf(rec)) |-> Notification(n, NotificationsOf(rec)[i])]

\* enqueueLine: the line joins the chain
EnqueueLine(rec) ==
  /\ Len(call.queue) + Len(call.mapped) < MaxAttemptRecords
  /\ call' = [call EXCEPT !.queue = Append(@, rec)]
  /\ UNCHANGED returned
  /\ UNCHANGED << readerVars, agentVars, mapperVars, classifyVars >>

\* the chain reaches the next line: processLine parses it and calls
\* onEvent, which maps it
OnEventMap ==
  /\ ~call.chainRejected
  /\ ~call.inHand
  /\ call.queue # <<>>
  /\ call' = [call EXCEPT
       !.queue = Tail(@),
       !.mapped = Append(@, Head(call.queue)),
       !.inHand = TRUE,
       !.toSend = SendsOf(Head(call.queue), Len(call.mapped) + 1)]
  /\ UNCHANGED returned
  /\ UNCHANGED << readerVars, agentVars, mapperVars, classifyVars >>

\* the loop over mapped.notifications calls client.sessionUpdate
SessionUpdateCall ==
  /\ ~call.chainRejected
  /\ call.inHand
  /\ ~call.awaiting
  /\ call.toSend # <<>>
  /\ returned' = Append(returned, Head(call.toSend))
  /\ call' = [call EXCEPT !.toSend = Tail(@), !.awaiting = TRUE]
  /\ UNCHANGED << readerVars, agentVars, mapperVars, classifyVars >>

\* await client.sessionUpdate(notification) returns
SessionUpdateReturn ==
  /\ call.awaiting
  /\ call' = [call EXCEPT !.awaiting = FALSE]
  /\ UNCHANGED returned
  /\ UNCHANGED << readerVars, agentVars, mapperVars, classifyVars >>

\* await client.sessionUpdate(notification) throws: onEvent and processLine
\* reject, and the chain skips every later line
SessionUpdateThrow ==
  /\ call.awaiting
  /\ call' = [call EXCEPT !.awaiting = FALSE, !.chainRejected = TRUE]
  /\ UNCHANGED returned
  /\ UNCHANGED << readerVars, agentVars, mapperVars, classifyVars >>

\* the loop is over and onEvent returns; the chain moves on
OnEventReturnEarly ==
  /\ call.inHand
  /\ call' = [call EXCEPT !.inHand = FALSE, !.toSend = <<>>, !.awaiting = FALSE]
  /\ UNCHANGED returned
  /\ UNCHANGED << readerVars, agentVars, mapperVars, classifyVars >>
OnEventReturn ==
  /\ ~call.chainRejected
  /\ call.inHand
  /\ ~call.awaiting
  /\ call.toSend = <<>>
  /\ call' = [call EXCEPT !.inHand = FALSE]
  /\ UNCHANGED returned
  /\ UNCHANGED << readerVars, agentVars, mapperVars, classifyVars >>

InitOnEvent ==
  /\ script = [lines |-> <<>>, tail |-> <<>>, err |-> <<>>]
  /\ ReaderInit
  /\ AgentIdle
  /\ MapperInit
  /\ ClassifyInit
  /\ call = NoOnEvent
  /\ returned = <<>>

NextOnEvent ==
  \/ \E rec \in AttemptRecords : EnqueueLine(rec)
  \/ OnEventMap
  \/ SessionUpdateCall
  \/ SessionUpdateReturn
  \/ SessionUpdateThrow
  \/ OnEventReturn

SpecOnEvent == InitOnEvent /\ [][NextOnEvent]_vars

\* ------------------------------------------------------------------------
\* cursor-event-mapper.ts: the two texts of a shell completion.  Of a
\* result the model keeps the `success` and `error` sub-objects, and of
\* each its output text, its exit code and its signal name.
\* ------------------------------------------------------------------------
Number(n) == [isNumber |-> TRUE, n |-> n]
NotNumber == [isNumber |-> FALSE, n |-> 0]

NoShellRecord ==
  [isObject |-> FALSE, stdout |-> NotString, exitCode |-> NotNumber, signal |-> NotString]
ShellRecords ==
  [isObject : {TRUE},
   stdout : {NotString, String(<<>>), String(<<"out">>)},
   exitCode : {NotNumber, Number(0), Number(1)},
   signal : {NotString, String(<<>>), String(<<"SIGKILL">>)}] \cup {NoShellRecord}
UndefinedShellResult == [isObject |-> FALSE, success |-> NoShellRecord, error |-> NoShellRecord]
ShellResults ==
  [isObject : {TRUE}, success : ShellRecords, error : ShellRecords]
  \cup {UndefinedShellResult}
ShellCompletions == [toolName : {"shellToolCall", "readToolCall"}, result : ShellResults]

NoOutputText == <<"Command completed with no output.">>

\* extractTextFromRecord over the fields kept
ShellTextOf(record) ==
  IF record.isObject /\ Truthy(record.stdout) THEN record.stdout ELSE NotString

\* extractToolResultOutputText: success, then error, then the result itself
ShellOutputTextOf(result) ==
  IF ~result.isObject THEN NotString
  ELSE IF ShellTextOf(result.success).isString THEN ShellTextOf(result.success)
  ELSE ShellTextOf(result.error)

\* formatShellToolResponse: the prefix
ShellPrefixOf(record) ==
  LET code == IF record.isObject /\ record.exitCode.isNumber
              THEN <<"Exited with code ", ToString(record.exitCode.n), ".">> ELSE <<>>
      sig == IF record.isObject /\ Truthy(record.signal)
             THEN (IF code # <<>> THEN <<" ">> ELSE <<>>)
                  \o <<"Signal ", "bq", record.signal.text[1], "bq", ". ">>
             ELSE <<>>
  IN IF code \o sig # <<>> THEN code \o sig \o <<"Final output:\n\n">> ELSE <<>>

\* the sub-object formatShellToolResponse reads the exit code and the
\* signal from
PrefixSource(result) ==
  IF ~result.isObject THEN NoShellRecord ELSE result.success

formatShellToolResponse(result, outputText) ==
  ShellPrefixOf(PrefixSource(result))
    \o (IF outputText.isString THEN outputText.text ELSE NoOutputText)

\* mapCursorEventToAcp, completed: rawOutput and _meta.claudeCode.toolResponse
\* of the update; for another tool rawOutput is the result and there is no
\* toolResponse
NoToolResponse == <<>>
ShellUpdateOf(toolName, result) ==
  IF toolName = "shellToolCall"
  THEN [shell |-> TRUE,
        rawOutput |-> IF ShellOutputTextOf(result).isString
                      THEN ShellOutputTextOf(result).text ELSE NoOutputText,
        toolResponse |-> formatShellToolResponse(result, ShellOutputTextOf(result))]
  ELSE [shell |-> FALSE, rawOutput |-> <<>>, toolResponse |-> NoToolResponse]

\* the completion update of one tool call is built
BuildShellUpdate ==
  /\ returned = <<>>
  /\ returned' = << ShellUpdateOf(call.toolName, call.result) >>
  /\ UNCHANGED call
  /\ UNCHANGED << readerVars, agentVars, mapperVars, classifyVars >>

InitShell ==
  /\ script = [lines |-> <<>>, tail |-> <<>>, err |-> <<>>]
  /\ ReaderInit
  /\ AgentIdle
  /\ MapperInit
  /\ ClassifyInit
  /\ call \in ShellCompletions
  /\ returned = <<>>

NextShell == BuildShellUpdate

SpecShell == InitShell /\ [][NextShell]_vars

\* Weak fairness on the reader's own continuations: the event loop runs every
\* ready continuation and onEvent eventually settles.  The child's writes
\* and its exit are not the reader's to schedule.
ReaderFairness ==
  /\ WF_vars(\E i \in 1..(MaxLines + 1) : ProcessLineStart(i))
  /\ WF_vars(\E i \in 1..(MaxLines + 1) : HandlerReturn(i) \/ HandlerThrow(i))
  /\ WF_vars(\E i \in 1..(MaxLines + 1) : ChainPropagate(i))
  /\ WF_vars(CloseAfterProcessing)
  /\ WF_vars(CloseTailReturn \/ CloseTailThrow)

SpecReaderFair == SpecReader /\ ReaderFairness

\* Weak fairness on the agent's own continuations and on the promises it
\* awaits from the client, the authentication check and the history store:
\* each settles.  The child's writes and its exit are the child's: cancel()
\* sends SIGTERM and nothing in the agent makes the child exit.
AgentFairness ==
  /\ WF_vars(\E p \in Slots : \E ok \in BOOLEAN : AuthReturn(p, ok))
  /\ WF_vars(\E p \in Slots : \E stored \in BOOLEAN : RecordUserReturn(p, stored))
  /\ WF_vars(\E p \in Slots : \E m \in SlashTargets : SlashReturn(p, m))
  /\ WF_vars(\E p \in Slots : SlashRespondReturn(p))
  /\ WF_vars(\E p \in Slots : HandleRecord(p))
  /\ WF_vars(\E p \in Slots : NotificationReturn(p))
  /\ WF_vars(\E p \in Slots : \E stored \in BOOLEAN : RecordAssistantReturn(p, stored))
  /\ WF_vars(\E p \in Slots : \E resp \in PermissionResponses : PermissionResolve(p, resp))
  /\ WF_vars(\E p \in Slots : ModeNotifyReturn(p))

SpecFair == Spec /\ AgentFairness

\* ------------------------------------------------------------------------
\* Properties of the reader
\* ------------------------------------------------------------------------
Range(f) == { f[i] : i \in DOMAIN f }

\* the text delivered to the reader so far
Received ==
  SubSeq(ScriptText(script), 1, Len(ScriptText(script)) - Len(remaining))

\* the record types of the non-blank lines of a text, in order
RECURSIVE KindsOf(_)
KindsOf(lines) ==
  IF lines = <<>> THEN <<>>
  ELSE IF Trim(Head(lines)) = <<>> THEN KindsOf(Tail(lines))
  ELSE <<ParseJson(Head(lines))>> \o KindsOf(Tail(lines))

\* the record types the child's script names, read off the script itself
PieceKind(piece) ==
  IF piece = ResultText \o <<"\n">> THEN "result"
  ELSE IF piece = ToolText \o <<"\n">> THEN "tool_call"
  ELSE "assistant"
ScriptKinds == [i \in DOMAIN script.lines |-> PieceKind(script.lines[i])]

\* the child's output is N newline-terminated JSON records
ScriptIsRecords ==
  /\ script.tail = <<>>
  /\ \A i \in DOMAIN script.lines : script.lines[i] \in RecordLines

InProgress ==
  Cardinality(TaskStates({"running"})) + (IF closePc = "tailHandler" THEN 1 ELSE 0)

\* C1: when the child's output is N newline-terminated JSON records, then
\* whatever the chunk boundaries, onEvent is invoked once per record in the
\* output order: the invocations so far are always a prefix of the records,
\* and once all output is delivered and the queue has drained they are
\* exactly the N records (no handler having thrown).
C1_Ordering ==
  ScriptIsRecords =>
    /\ IsPrefix(handled, ScriptKinds)
    /\ ( /\ remaining = <<>>
         /\ TaskStates({"waiting", "running"}) = {}
         /\ ~handlerThrew )
       => handled = ScriptKinds

\* C1 witness: two records, the first split across two chunks and the rest
\* of it delivered in one chunk together with the whole second record.
C1_Witness ==
  /\ ScriptIsRecords
  /\ Len(script.lines) = 2
  /\ script.lines[1] # script.lines[2]
  /\ handled = ScriptKinds
  /\ Len(processing) = 2
  /\ processing[1].chunk = 2 /\ processing[2].chunk = 2
  /\ processing[2].st = "fulfilled"
  /\ remaining = <<>>

\* C2: at most one onEvent invocation is in progress, and the invocation for
\* a line has begun only if every line queued before it has completed.
C2_Sequential ==
  /\ InProgress <= 1
  /\ \A i \in DOMAIN processing :
       processing[i].st \in {"running", "fulfilled"}
         => \A j \in 1..(i - 1) : processing[j].st = "fulfilled"
  /\ closePc = "tailHandler" => TaskStates({"waiting", "running", "rejected"}) = {}

\* C2 witness: a chunk arrived while the handler of an earlier line was
\* pending; its line waits in the queue behind the running handler.
C2_Witness ==
  \E i \in DOMAIN processing :
    /\ processing[i].st = "running"
    /\ i + 1 \in DOMAIN processing
    /\ processing[i + 1].late
    /\ processing[i + 1].st = "waiting"
    /\ Trim(processing[i + 1].line) # <<>>

\* C9: the completion resolves only when a result record is among the
\* processed records, the child has closed, the queue has drained, every
\* non-blank line delivered (the unterminated tail included) has been
\* handled in order, and the reader has sent no SIGKILL; the reader sends
\* SIGKILL only after a line failed.
C9_Termination ==
  /\ completion = "resolved" =>
       /\ resultEvent = "result"
       /\ "result" \in Range(events)
       /\ closed
       /\ closePc = "finished"
       /\ TaskStates({"waiting", "running", "rejected"}) = {}
       /\ events = KindsOf(SplitLines(Received))
       /\ handled = events
       /\ "SIGKILL" \notin killed
  /\ "SIGKILL" \in killed => TaskStates({"rejected"}) # {}

\* C9 witness: resolved after a tool_call line that followed the result
\* record and after a tool_call record in the unterminated tail.
C9_Witness ==
  /\ completion = "resolved"
  /\ events = <<"result", "tool_call", "tool_call">>
  /\ script.tail = ToolText
  /\ killed = {}

\* C10 (as claimed): once a result record has been processed, every line
\* delivered has been handled and nothing has failed, the completion
\* eventually settles, whether or not the child exits.
C10_ResolvesWhileAlive ==
  ( /\ resultEvent = "result"
    /\ remaining = <<>>
    /\ TaskStates({"waiting", "running", "rejected"}) = {} )
  ~> settled

\* ------------------------------------------------------------------------
\* Properties of prompt()
\* ------------------------------------------------------------------------
Done(p) == pc[p] = "done"

\* C3: a prompt() starts at most two runs and sends at most one permission
\* request; rejections recorded by attempt #2 lead to neither.
C3_RetryBound ==
  \A p \in Slots :
    /\ hist[p].runs <= 2
    /\ Len(hist[p].perm) <= 1
    /\ hist[p].secondRejected => (hist[p].runs = 2 /\ Len(hist[p].perm) = 1)

\* C3 witness: attempt #2 ended normally in a mode that asks, having
\* recorded a rejected call, and prompt() returned after two runs and one
\* permission request.
C3_Witness ==
  \E p \in Slots :
    /\ Done(p)
    /\ hist[p].secondRejected
    /\ hist[p].response = "end_turn"
    /\ AsksPermission(session.modeId)
    /\ hist[p].runs = 2
    /\ Len(hist[p].perm) = 1

\* C4: once a permission outcome has arrived with the session not cancelled,
\* allow_once and allow_always lead to exactly one more run, started with
\* the force flag, and prompt() returns what attempt #2 returned; any other
\* outcome starts no run and prompt() has returned what attempt #1 returned.
C4_DecisionMapping ==
  \A p \in Slots :
    (hist[p].decision # None /\ ~hist[p].decisionCancelled) =>
      IF hist[p].decision \in {"allow_once", "allow_always"}
      THEN /\ hist[p].runs = (IF pc[p] = "modeNotify" THEN 1 ELSE 2)
           /\ hist[p].runs = 2 => hist[p].retryForce
           /\ Done(p) => /\ Len(hist[p].stops) = 2
                         /\ hist[p].response = hist[p].stops[2]
      ELSE /\ Done(p)
           /\ hist[p].runs = 1
           /\ Len(hist[p].stops) = 1
           /\ hist[p].response = hist[p].stops[1]

\* C4 witness: an outcome that is not "selected" was answered with attempt
\* #1's stop reason after one run.
C4_Witness ==
  \E p \in Slots :
    /\ Done(p)
    /\ hist[p].decision = "cancelled"
    /\ ~hist[p].decisionCancelled
    /\ hist[p].runs = 1
    /\ hist[p].response = "end_turn"

\* the condition under which the claim has a permission request sent
ShouldAsk(first) ==
  /\ first.stop = "end_turn"
  /\ ~first.cancelled
  /\ Len(first.rejected) > 0
  /\ first.modeId \in {"default", "acceptEdits"}

\* C5: no permission request is sent before attempt #1 has returned; once it
\* has, a request has been sent if and only if attempt #1 returned end_turn,
\* the session was not cancelled, a rejected call was recorded and the mode
\* was default or acceptEdits, and the request names the first rejected call.
C5_PermissionCondition ==
  \A p \in Slots :
    /\ hist[p].first.stop = None => hist[p].perm = <<>>
    /\ hist[p].first.stop # None =>
         /\ (Len(hist[p].perm) >= 1) <=> ShouldAsk(hist[p].first)
         /\ Len(hist[p].perm) >= 1 => hist[p].perm[1] = hist[p].first.rejected[1]

\* C5 witness: attempt #1 recorded two rejected calls and the request was
\* sent for the first of them.
C5_Witness ==
  \E p \in Slots :
    /\ pc[p] = "awaitPermission"
    /\ Len(hist[p].first.rejected) = 2
    /\ hist[p].perm = <<hist[p].first.rejected[1]>>

\* C6 (as claimed): when cancel() was invoked while the permission request
\* of a prompt was pending, then once the outcome has arrived no
\* current_mode_update was sent (the mode is set only together with it), no
\* retry run was started and prompt() has returned cancelled.
C6_CancelPrecedence ==
  \A p \in Slots :
    (hist[p].cancelInPerm /\ hist[p].decision # None) =>
      /\ Done(p)
      /\ hist[p].response = "cancelled"
      /\ hist[p].runs = 1
      /\ hist[p].modeUpdates = 0

\* C7 (as claimed): a prompt() during which cancel() was invoked never
\* returns end_turn or max_turn_requests.
C7_CancelOutcome ==
  \A p \in Slots :
    (Done(p) /\ hist[p].cancelSeen) =>
      hist[p].response \notin {"end_turn", "max_turn_requests"}

\* the runs whose completion has not settled
ActiveRuns == { p \in Slots : run[p].st = "active" }

\* C8 (as claimed): at most one run of the session is unsettled, and
\* session.activeRun refers to it.
C8_SingleRun ==
  /\ Cardinality(ActiveRuns) <= 1
  /\ \A p \in ActiveRuns : session.activeRun = p

\* ------------------------------------------------------------------------
\* Failures of a run
\* ------------------------------------------------------------------------
\* the close handler has finished and every non-blank line received, the
\* unterminated tail included, was parsed and handled without a failure
DrainedAndFlushed ==
  /\ closed
  /\ closePc = "finished"
  /\ ~handlerThrew
  /\ handled = KindsOf(SplitLines(Received))

\* the diagnostic of an exit without result: the exit code (1 for none) and
\* the stderr received, without control sequences and trimmed
CarriesExitAndStderr ==
  /\ failure.kind = "noResult"
  /\ failure.exit = (IF exitCode = NullCode THEN 1 ELSE exitCode)
  /\ failure.text = (IF stderr = <<>> THEN <<>> ELSE <<"x">>)

NotJson(line) == Trim(line) = <<"t">>

\* the queued lines whose turn has come: processLine has run for them, or
\* was skipped because the chain had already rejected
Reached == { i \in DOMAIN processing : processing[i].st # "waiting" }

\* the close handler has come to the unterminated tail
TailReached ==
  /\ closePc \in {"tailHandler", "finished"}
  /\ TaskStates({"rejected"}) = {}

\* the lines queued before line i, in order
LinesBefore(i) == [j \in 1..(i - 1) |-> processing[j].line]

\* C12: once the turn of a non-blank line that is not JSON has come, in the
\* queue or as the unterminated tail, the completion is rejected (and so
\* can never resolve), whether or not a result record was processed; the
\* line is not skipped: no line after it is handed to onEvent.
C12_ParseFailureFatal ==
  /\ \A i \in Reached :
       NotJson(processing[i].line) =>
         /\ completion = "rejected"
         /\ IsPrefix(handled, KindsOf(LinesBefore(i)))
  /\ (TailReached /\ NotJson(stdoutBuffer)) =>
       /\ completion = "rejected"
       /\ closePc = "finished"

\* C12 witness: the result record was processed and handled, then a line
\* that is not JSON; the child has closed and the completion is rejected
\* with the parse error.
C12_Witness ==
  /\ Len(processing) = 2
  /\ processing[1].st = "fulfilled"
  /\ handled = <<"result">>
  /\ resultEvent = "result"
  /\ NotJson(processing[2].line)
  /\ processing[2].st = "rejected"
  /\ closePc = "finished"
  /\ completion = "rejected"
  /\ failure.kind = "parse"

\* ------------------------------------------------------------------------
\* Properties of mapCursorEventToAcp
\* ------------------------------------------------------------------------
\* a tool_call record of the given subtype
IsToolCall(e, subtype) == e.type = "tool_call" /\ e.subtype = subtype

\* the tool_call_update notifications of a mapping result
UpdatesOf(result) ==
  { i \in DOMAIN result.notifications :
      result.notifications[i].sessionUpdate = "tool_call_update" }

\* a tool_call record, started or completed, has just been mapped
Mapping ==
  /\ nEvents' = nEvents + 1
  /\ lastEvent'.type = "tool_call"
  /\ lastEvent'.subtype \in {"started", "completed"}

\* what the claim says of the record just mapped: after a started record
\* the cache holds its payload under the sanitized id; after a completed
\* record it holds nothing under that id and exactly one tool_call_update
\* was emitted, built from the completion payload when the cache had none
LifecycleStep ==
  LET e == lastEvent'
      id == ToolCallIdOf(e)
      payload == extractCursorToolPayload(e.tool_call)
  IN IF e.subtype = "started"
     THEN toolUseCache'[id] # NoPayload
     ELSE /\ toolUseCache'[id] = NoPayload
          /\ Cardinality(UpdatesOf(mapped')) = 1
          /\ mapped'.notifications[1].sessionUpdate = "tool_call_update"
          /\ mapped'.notifications[1].toolCallId = id
          /\ toolUseCache[id] = NoPayload =>
               /\ mapped'.notifications[1].toolName = payload.toolName
               /\ mapped'.notifications[1].rawInput = payload.args

\* C13 (as claimed): the cache lifecycle for every tool_call record.
C13_CacheLifecycle == [][Mapping => LifecycleStep]_vars

\* C13 (amended): the cache lifecycle for every tool_call record whose
\* tool_call payload can be extracted.
C13_CacheLifecycleOfPayloads ==
  [][(Mapping /\ extractCursorToolPayload(lastEvent'.tool_call) # NoPayload)
       => LifecycleStep]_vars

\* C13 witness: a started and a completed record of one call id; the
\* update carries the arguments cached at start, not those of the
\* completed record, and the entry is gone.
C13_Witness ==
  /\ nEvents = 2
  /\ IsToolCall(lastEvent, "completed")
  /\ lastEvent.tool_call # Malformed
  /\ Cardinality(UpdatesOf(mapped)) = 1
  /\ mapped.notifications[1].rawInput # lastEvent.tool_call.args
  /\ toolUseCache[ToolCallIdOf(lastEvent)] = NoPayload

\* the call ids whose started record has been mapped and whose completed
\* record has not
OpenIds == { r \in RawCallIds : openCalls[r] # NoPayload }

\* C14 (as claimed): every open tool call has its own cache entry, holding
\* the payload of the started record of its own call id, so that its
\* completed record is matched with that payload.
C14_NoCollision ==
  \A r \in OpenIds : toolUseCache[sanitizeToolCallId(r)] = openCalls[r]

\* the result of a record holds a nested `rejected` object
HasRejectedObject(event) ==
  /\ event.tool_call.result.defined
  /\ event.tool_call.result.rejected = "object"

\* C15: a completed record whose result holds a rejected object yields one
\* tool_call_update with status failed and a rejectedToolCall with the
\* sanitized call id, with the arguments cached at start (the record's own
\* when nothing is cached) and with the title that tool-start
\* classification computes for the cached tool name and arguments.
C15_RejectionRoundTrip ==
  [][(Mapping /\ IsToolCall(lastEvent', "completed") /\ HasRejectedObject(lastEvent'))
       => LET e == lastEvent'
              id == sanitizeToolCallId(e.call_id)
              atStart == IF toolUseCache[id] # NoPayload THEN toolUseCache[id]
                         ELSE extractCursorToolPayload(e.tool_call)
          IN /\ Cardinality(UpdatesOf(mapped')) = 1
             /\ mapped'.notifications[1].status = "failed"
             /\ mapped'.rejectedToolCall.present
             /\ mapped'.rejectedToolCall.toolCallId = id
             /\ mapped'.rejectedToolCall.rawInput = atStart.args
             /\ mapped'.rejectedToolCall.title = ToolTitle(atStart.toolName, atStart.args)]_vars

\* C15 witness: a read of /f was started and its completed record, which
\* carries other arguments, was rejected: the rejectedToolCall has the
\* arguments and the title of the start.
C15_Witness ==
  /\ nEvents = 2
  /\ IsToolCall(lastEvent, "completed")
  /\ HasRejectedObject(lastEvent)
  /\ lastEvent.tool_call.args.path = ""
  /\ mapped.rejectedToolCall.present
  /\ mapped.rejectedToolCall.rawInput.path = "/f"
  /\ mapped.rejectedToolCall.title = <<"Read", "/f">>
  /\ mapped.notifications[1].status = "failed"

\* the last record was a completed record that was not ignored
CompletedMapped ==
  /\ IsToolCall(lastEvent, "completed")
  /\ lastEvent.tool_call # Malformed

\* C16: a completed record yields status failed and a rejectedToolCall if
\* and only if its result is an object holding a nested rejected object;
\* with an error object only, a `rejected` that is no object, or no result,
\* the status is completed and there is no rejectedToolCall.
C16_RejectionDetection ==
  /\ IsToolCall(lastEvent, "completed") =>
       ( /\ mapped.rejectedToolCall.present
         /\ \E i \in UpdatesOf(mapped) : mapped.notifications[i].status = "failed" )
       <=> HasRejectedObject(lastEvent)
  /\ (CompletedMapped /\ ~HasRejectedObject(lastEvent)) =>
       /\ ~mapped.rejectedToolCall.present
       /\ \A i \in UpdatesOf(mapped) : mapped.notifications[i].status = "completed"
       /\ UpdatesOf(mapped) # {}
  /\ mapped.rejectedToolCall.present <=>
       \E i \in UpdatesOf(mapped) : mapped.notifications[i].status = "failed"

\* C16 witness: a completed record whose result carries an error object and
\* a `rejected` that is no object: status completed, no rejectedToolCall.
C16_Witness ==
  /\ CompletedMapped
  /\ lastEvent.tool_call.result.error
  /\ lastEvent.tool_call.result.rejected = "notObject"
  /\ ~mapped.rejectedToolCall.present
  /\ mapped.notifications[1].status = "completed"

\* The allow_always decision of prompt p took effect: the outcome was
\* allow_always and the session was not cancelled when it arrived.
AlwaysDecided(p) ==
  /\ hist[p].decision = "allow_always"
  /\ ~hist[p].decisionCancelled

\* One current_mode_update carrying bypassPermissions was sent for the
\* decision; it precedes the retry run, which starts when the notification
\* returns.
NotifiedOnceBeforeRetry(p) ==
  /\ hist[p].modeUpdates = 1
  /\ hist[p].modeNotified = "bypassPermissions"
  /\ pc[p] = "modeNotify" => hist[p].runs = 1

\* C17: after an allow_always decision that took effect exactly
\* one current_mode_update with bypassPermissions is sent before the retry
\* run starts, and from then on the session's mode is bypassPermissions, in
\* the retry and in later prompts, as long as the client has not switched
\* the mode (session/set_mode or a /mode command).
C17_AllowAlwaysPermanent ==
  /\ \A p \in Slots : AlwaysDecided(p) => NotifiedOnceBeforeRetry(p)
  /\ grant # "none" => session.modeId = "bypassPermissions"

\* the attempt was classified as not cancelled
Classified ==
  /\ attemptOutcome # NoOutcome
  /\ ~attemptInput.cancelled

IsSuccess(ev) == ev.subtype = String(<<"success">>) /\ ev.is_error # "true"

HasLimitMarker(ev) ==
  /\ ev.subtype.isString
  /\ \E marker \in LimitMarkers : Includes(ev.subtype.text, marker)

\* the result text when it is a string, else the subtype
TextOrSubtype(ev) == IF ev.result.isString THEN ev.result.text ELSE ev.subtype.text

C19_CancelNeverRaises ==
  \A p \in Slots :
    (Done(p) /\ hist[p].cancelSeen) => hist[p].response # "error"

\* C20: a failure to record the user message or the assistant message is
\* caught: the prompt goes on as it would have after a successful write, to
\* the slash handler or attempt #1 after the user message, and with the
\* attempt returning end_turn after the assistant message.
C20_RecordingFailuresDegrade ==
  [][\A p \in Slots :
       /\ (pc[p] = "recordUser" /\ pc'[p] # "recordUser") =>
            pc'[p] \in {"slashHandler", "awaitRun"}
       /\ (pc[p] = "recordAssistant" /\ pc'[p] # "recordAssistant") =>
            hist'[p].stops = Append(hist[p].stops, "end_turn")]_vars

\* prompt() dispatched a built-in command and the handler has returned
Dispatched(p) == hist[p].slashCancelled # None

RunStarts(p) == hist'[p].runs = hist[p].runs + 1

\* C22: attempt #1 is started with --mode plan (ask) and without --force in
\* mode plan (ask), with --force and without --mode in mode
\* bypassPermissions, with neither in mode default or acceptEdits; attempt
\* #2 is started with --force and without --mode in every mode.
C22_ModeFlags ==
  [][\A p \in Slots :
       RunStarts(p) =>
         IF hist'[p].runs = 1
         THEN /\ session.modeId \in {"plan", "ask"} =>
                   run'[p].modeFlag = session.modeId /\ ~run'[p].force
              /\ session.modeId = "bypassPermissions" =>
                   run'[p].modeFlag = None /\ run'[p].force
              /\ session.modeId \in {"default", "acceptEdits"} =>
                   run'[p].modeFlag = None /\ ~run'[p].force
         ELSE run'[p].modeFlag = None /\ run'[p].force]_vars

\* C22 witness: attempt #2 is running with --force and without --mode in a
\* session the client has switched to plan or ask in the meantime.
C22_Witness ==
  \E p \in Slots :
    /\ pc[p] = "awaitRun"
    /\ hist[p].runs = 2
    /\ run[p].st = "active"
    /\ session.modeId \in {"plan", "ask"}
    /\ run[p].force
    /\ run[p].modeFlag = None

\* the cancel handle was invoked
Cancelled == "SIGTERM" \in killed

\* no line failed, no handler threw and the child emitted no 'error'
NothingFailed == failure.kind \in {None, "noResult"}

\* Once the close handler has finished in a cancelled run in which nothing
\* failed: resolved with every record delivered, in order, when a result
\* record is among them, and rejected for the missing result otherwise.
SettledByClose ==
  (Cancelled /\ closePc = "finished" /\ NothingFailed) =>
    IF resultEvent # None
    THEN /\ completion = "resolved"
         /\ events = KindsOf(SplitLines(Received))
         /\ handled = events
    ELSE /\ completion = "rejected"
         /\ failure.kind = "noResult"

\* A cancelled run in which nothing failed is not settled before the close
\* handler has finished.
NotSettledByCancel ==
  (Cancelled /\ settled /\ NothingFailed) => closePc = "finished"

\* C23: invoking the cancel handle changes nothing but the signal sent; the
\* completion is not settled by it and no event is discarded; when the
\* child then closes, the completion resolves with all events processed so
\* far if a result record is among them and rejects otherwise.
C23_ReaderCancellation ==
  [][/\ (Cancelled' /\ ~Cancelled) =>
          UNCHANGED << settled, completion, failure, events, resultEvent, handled,
                       processing, stdoutBuffer, closed, closePc >>
     /\ SettledByClose'
     /\ NotSettledByCancel']_vars

\* C23 witness: the child was cancelled before it had written everything and
\* the completion resolved with the records delivered until then.
C23_Witness ==
  /\ Cancelled
  /\ remaining # <<>>
  /\ completion = "resolved"
  /\ "result" \in Range(events)
  /\ Len(events) >= 2

\* the status a plan entry is to have for a todo status
PlanStatusFor(status) ==
  IF status \in { String(<<"TODO_STATUS_COMPLETED">>), String(<<"completed">>) }
  THEN "completed"
  ELSE IF status \in { String(<<"TODO_STATUS_IN_PROGRESS">>), String(<<"in_progress">>) }
  THEN "in_progress"
  ELSE "pending"

\* entry stands for todo item
EntryFor(entry, todo) ==
  /\ entry.priority = "medium"
  /\ entry.status = PlanStatusFor(todo.status)
  /\ todo.content.isString => entry.content = todo.content.text

\* the todo items of the last record's result
TodoItems == lastEvent.tool_call.result.todos.items

\* the items of a list that are objects, in order
ObjectItems(items) == SelectSeq(items, LAMBDA todo : todo.isObject)

\* the last record completed a call of the todo-update tool (the tool the
\* call was started with, named in the update's _meta)
TodoCompleted ==
  /\ CompletedMapped
  /\ mapped.notifications[1].toolName = "updateTodosToolCall"

\* the notifications of a completion: one tool_call_update, then one plan
\* with the given number of entries
UpdateThenPlan(n) ==
  /\ Len(mapped.notifications) = 2
  /\ mapped.notifications[1].sessionUpdate = "tool_call_update"
  /\ mapped.notifications[2].sessionUpdate = "plan"
  /\ Len(mapped.notifications[2].entries) = n

NoPlan ==
  \A i \in DOMAIN mapped.notifications : mapped.notifications[i].sessionUpdate # "plan"

\* C24 (as claimed): a completion of the todo-update tool yields one
\* tool_call_update followed by one plan whose entries stand one-to-one and
\* in order for the result's todo items, with priority medium and the status
\* mapped; a completion of any other tool yields no plan.
C24_TodoMapping ==
  /\ TodoCompleted =>
       /\ UpdateThenPlan(Len(TodoItems))
       /\ \A i \in 1..Len(TodoItems) :
            EntryFor(mapped.notifications[2].entries[i], TodoItems[i])
  /\ ~TodoCompleted => NoPlan

\* C24 (amended): the same, the entries standing for the todo items that are
\* objects; an item that is no object has no entry.
C24_TodoMappingOfObjects ==
  /\ TodoCompleted =>
       /\ UpdateThenPlan(Len(ObjectItems(TodoItems)))
       /\ \A i \in 1..Len(ObjectItems(TodoItems)) :
            EntryFor(mapped.notifications[2].entries[i], ObjectItems(TodoItems)[i])
  /\ ~TodoCompleted => NoPlan

\* C24 witness: the specification's example as the first of three items.
C24_Witness ==
  /\ TodoCompleted
  /\ Len(TodoItems) = 3
  /\ mapped.notifications[2].entries[1] =
       [content |-> <<"Inspect repo">>, status |-> "pending", priority |-> "medium"]
  /\ mapped.notifications[2].entries[2].status = "completed"
  /\ mapped.notifications[2].entries[3].status = "in_progress"

\* a record the mapper has no branch for, or a tool_call record whose
\* payload cannot be extracted
Ignored(e) ==
  \/ e.type \notin {"tool_call", "system", "thinking", "assistant"}
  \/ e.type = "system" /\ e.subtype # "init"
  \/ e.type = "thinking" /\ e.subtype # "delta"
  \/ /\ e.type = "tool_call"
     /\ \/ e.subtype \notin {"started", "completed"}
        \/ extractCursorToolPayload(e.tool_call) = NoPayload

\* C25: for a record of unknown type or subtype, and for a tool_call record
\* whose payload cannot be extracted, the mapper returns no notification and
\* no rejectedToolCall and leaves the tool-use cache as it was.
C25_UnknownIgnored ==
  [][(nEvents' = nEvents + 1 /\ Ignored(lastEvent')) =>
       /\ mapped' = NoMapping
       /\ toolUseCache' = toolUseCache]_vars

\* C25 witness: with a call open in the cache, a record of another type that
\* looks like a rejected completion was mapped to nothing.
C25_Witness ==
  /\ lastEvent.type = "user"
  /\ lastEvent.subtype = "completed"
  /\ lastEvent.tool_call = RejectedRead
  /\ mapped = NoMapping
  /\ toolUseCache[ToolCallIdOf(lastEvent)] # NoPayload

\* the longest run of backquotes in a text
LongestRun(text) == MaxOf({0} \cup { RunAt(text, i) : i \in 1..Len(text) })

\* the number of backquotes a text begins with
OpeningFence(text) == RunAt(text, 1)

\* the text of the content item is `text` between two fences of k
\* backquotes, each on a line of its own
Fenced(out, text, k) ==
  \E nl \in { <<>>, <<"\n">> } :
    out = Backticks(k) \o <<"\n">> \o text \o nl \o Backticks(k)

\* C27: the text of every content item is the text between an opening and
\* a closing fence of k backquotes, k >= 3 and k greater than the longest
\* run of backquotes in the text.
C27_FenceSafety ==
  returned # <<>> =>
    \A i \in DOMAIN returned[1] :
      LET k == OpeningFence(returned[1][i])
      IN /\ k >= 3
         /\ k > LongestRun(call.text)
         /\ Fenced(returned[1][i], call.text, k)

\* the completion is one of the edit tool or of the write tool
EditOrWrite == baseToolName(call.toolName) \in {"edit", "write"}

\* the result carries a before-snapshot and an after-snapshot
BothSnapshots ==
  /\ call.result.isObject
  /\ call.result.success.isObject
  /\ call.result.success.beforeFullFileContent.isString
  /\ call.result.success.afterFullFileContent.isString

\* a prebuilt diff string is present
DiffStringPresent ==
  /\ call.result.isObject
  /\ call.result.success.isObject
  /\ Truthy(call.result.success.diffString)

\* C26: for a completion of the edit tool or of the write tool, with a
\* path, whose result carries both snapshots the content is the structured
\* diff {path, oldText, newText}; otherwise, if a diff string is present,
\* the content is that string as fenced text.
C26_DiffContent ==
  (returned # <<>> /\ EditOrWrite /\ Truthy(call.path)) =>
    /\ BothSnapshots =>
         returned[1].content =
           << DiffItem(call.path.text,
                       call.result.success.beforeFullFileContent.text,
                       call.result.success.afterFullFileContent.text) >>
    /\ (~BothSnapshots /\ DiffStringPresent) =>
         returned[1].content =
           << TextItem(markdownEscape(call.result.success.diffString.text)) >>

\* cancel() has been invoked while the run of prompt p is active
CancelledWhileActive(p) ==
  /\ pc[p] = "awaitRun"
  /\ run[p].st = "active"
  /\ "SIGTERM" \in run[p].killed

\* C28: after cancel() is invoked while a run is active, the in-flight
\* prompt() eventually returns with stop reason cancelled, whether or not
\* the child exits.
C28_CancellationLiveness ==
  \A p \in Slots :
    CancelledWhileActive(p) ~> (pc[p] = "done" /\ hist[p].response = "cancelled")

\* attempt #2 of prompt p is started in this step
SecondRunStarts(p) == hist[p].runs = 1 /\ hist'[p].runs = 2

\* C29: within one prompt, attempt #2's run is started only after attempt
\* #1's completion has settled and every record of attempt #1 has been
\* handled, its notifications sent; nothing of attempt #1 is outstanding
\* when attempt #2 starts.
C29_NoInterleaving ==
  [][\A p \in Slots :
       SecondRunStarts(p) =>
         /\ run[p].st = "settled"
         /\ hist[p].firstDrained
         /\ hist[p].first.stop = "end_turn"
         /\ run'[p].st = "active"
         /\ run'[p].nlines = 0
         /\ ~run'[p].busy]_vars

\* attempt #2 is running after an attempt #1 that handled records and sent
\* notifications
C29_Witness ==
  \E p \in Slots :
    /\ hist[p].runs = 2
    /\ run[p].st = "active"
    /\ run[p].busy
    /\ hist[p].firstDrained
    /\ hist[p].first.rejected # <<>>

\* the notification lists of the records mapped, concatenated in record
\* order
MapperLists(records) == Flatten([n \in 1..Len(records) |-> SendsOf(records[n], n)])

\* what the client has received is what the mapper returned for the records
\* mapped so far, but for the notifications of the record in hand not yet
\* sent
SentInOrder == returned \o call.toSend = MapperLists(call.mapped)

\* a record is mapped in this step
RecordMapped == Len(call'.mapped) > Len(call.mapped)

\* C30: within an attempt the notifications sent to the client are the
\* concatenation, in record order, of the mapper's notification lists;
\* every notification of record N has been sent, and its send awaited,
\* before record N+1 is mapped.
C30_NotificationOrdering ==
  [][/\ SentInOrder'
     /\ RecordMapped => (returned = MapperLists(call.mapped) /\ ~call.awaiting)]_vars

\* a record with two notifications, both sent, then the next record's
C30_Witness ==
  /\ Len(call.mapped) = 3
  /\ call.mapped[2] = "todos_completed"
  /\ Len(returned) >= 3
  /\ returned[Len(returned)].record = 3
  /\ ~call.inHand

\* the record at the head of p's run is handled in this step
Handles(p, recs) ==
  /\ run[p].st = "active"
  /\ run[p].line \in recs
  /\ run'[p].line = None

\* a run of prompt p is started in this step
RunStarted(p) == hist'[p].runs > hist[p].runs

\* C31: handling a system/init record with a non-empty session id S makes
\* backendSessionId S; a system/init record without one, and every other
\* step, leaves it as it is; every run is started with --resume of the
\* backendSessionId of that moment, the retry included.
C31_BackendSessionAdoption ==
  [][/\ \A p \in Slots :
          Handles(p, InitRecords) =>
            session'.backendSessionId =
              IF SessionIdOf(run[p].line).isString /\ SessionIdOf(run[p].line).text # <<>>
              THEN SessionIdOf(run[p].line).text[1]
              ELSE session.backendSessionId
     /\ (\A p \in Slots : ~Handles(p, InitRecords)) =>
          session'.backendSessionId = session.backendSessionId
     /\ \A p \in Slots :
          RunStarted(p) => run'[p].resume = session'.backendSessionId]_vars

\* the retry attempt resumes the chat that attempt #1's init record named
C31_Witness ==
  \E p \in Slots :
    /\ hist[p].runs = 2
    /\ run[p].st = "active"
    /\ run[p].resume = "chat-3"
    /\ session.backendSessionId = "chat-3"

\* a record of the given type is mapped in this step
StreamMapped(type) == nEvents' = nEvents + 1 /\ lastEvent'.type = type

\* a text segment of a message content
IsTextSegment(item) == item.isObject /\ item.type = "text" /\ item.text.isString
TextSegments(event) ==
  IF event.message.isObject /\ event.message.isArray
  THEN SelectSeq(event.message.items, IsTextSegment)
  ELSE <<>>

\* C32: a system/init record and a result record yield no notification; a
\* thinking/delta record yields one agent_thought_chunk with its text when
\* the text is non-empty and none otherwise; an assistant record yields one
\* agent_message_chunk per text segment of its content, in segment order;
\* none of them changes the tool-use cache or reports a rejected call.
C32_RecordNotificationCounts ==
  [][/\ (StreamMapped("system") /\ lastEvent'.subtype = "init") =>
          mapped'.notifications = <<>>
     /\ StreamMapped("result") => mapped'.notifications = <<>>
     /\ (StreamMapped("thinking") /\ lastEvent'.subtype = "delta") =>
          IF lastEvent'.text.isString /\ lastEvent'.text.text # <<>>
          THEN /\ Len(mapped'.notifications) = 1
               /\ mapped'.notifications[1].sessionUpdate = "agent_thought_chunk"
               /\ mapped'.notifications[1].text = lastEvent'.text.text
          ELSE mapped'.notifications = <<>>
     /\ StreamMapped("assistant") =>
          /\ Len(mapped'.notifications) = Len(TextSegments(lastEvent'))
          /\ \A i \in 1..Len(mapped'.notifications) :
               /\ mapped'.notifications[i].sessionUpdate = "agent_message_chunk"
               /\ mapped'.notifications[i].text = TextSegments(lastEvent')[i].text.text
     /\ (\E type \in {"system", "result", "thinking", "assistant"} : StreamMapped(type)) =>
          /\ toolUseCache' = toolUseCache
          /\ ~mapped'.rejectedToolCall.present]_vars

\* an assistant record with two text segments is mapped while a tool call
\* is open
C32_Witness ==
  /\ lastEvent.type = "assistant"
  /\ Len(mapped.notifications) = 2
  /\ mapped.notifications[1].text = <<"b">>
  /\ mapped.notifications[2].text = <<"a">>
  /\ \E id \in SanitizedIds : toolUseCache[id] # NoPayload

\* the texts a prefix has to name: the exit code and the signal a record
\* carries
Summarized(record) ==
  (IF record.exitCode.isNumber THEN { ToString(record.exitCode.n) } ELSE {})
  \cup (IF Truthy(record.signal) THEN { record.signal.text[1] } ELSE {})

\* the sub-objects of the result that carry an exit code or a signal name
Carriers(result, records) ==
  { r \in records : result.isObject /\ r.isObject /\ Summarized(r) # {} }

\* display is a non-empty prefix naming every text of `named`, then raw
PrefixedBy(display, raw, named) ==
  \E k \in 1..Len(display) :
    /\ SubSeq(display, k + 1, Len(display)) = raw
    /\ \A t \in named : \E i \in 1..k : display[i] = t

\* the two texts of a shell completion, the exit code and the signal being
\* looked for in the given sub-objects of the result
DualRepresentation(records) ==
  (returned # <<>> /\ returned[1].shell) =>
    /\ returned[1].rawOutput =
         IF ShellOutputTextOf(call.result).isString
         THEN ShellOutputTextOf(call.result).text ELSE NoOutputText
    /\ IF Carriers(call.result, records) # {}
       THEN \A r \in Carriers(call.result, records) :
              PrefixedBy(returned[1].toolResponse, returned[1].rawOutput, Summarized(r))
       ELSE returned[1].toolResponse = returned[1].rawOutput

\* C33 (as claimed): for a shell completion rawOutput is the extracted text
\* or the no-output message; when the result carries a numeric exit code or
\* a signal name the display text is a prefix naming them followed by that
\* text, and it equals the raw text when the result carries neither.
C33_ShellDual == DualRepresentation({call.result.success, call.result.error})

\* the same, the exit code and the signal name being those of the result's
\* `success` object
ShellDualOfSuccess == DualRepresentation({call.result.success})

\* a diff or a diff string is there for the content
DiffMatches == BothSnapshots \/ DiffStringPresent

\* a candidate text field of the result holds a text
TextMatches == extractTextFromRecord(call.result.success).isString

\* C34: for a completion that carries a result object the content is not
\* empty, and when neither a diff nor a candidate text field matches it is
\* the fenced dump of the whole result object, whatever the tool.
C34_ContentFallback ==
  (returned # <<>> /\ call.result.isObject) =>
    /\ returned[1].content # <<>>
    /\ (~DiffMatches /\ ~TextMatches) =>
         returned[1].content = << TextItem(markdownEscape(JsonOf(call.result))) >>

\* C35: the completion settles at most once: it is pending exactly until
\* the first fail or succeed, and from then on neither its outcome nor the
\* error it carries changes, whatever error and close events follow.
C35_SettleOnce ==
  [][/\ settled' <=> completion' # "pending"
     /\ settled =>
          /\ settled'
          /\ completion' = completion
          /\ failure' = failure]_vars

\* rejected by an error event, and the close handler has since found a
\* result event and an intact chain and called succeed
C35_Witness ==
  /\ completion = "rejected"
  /\ failure = SpawnError
  /\ closePc = "finished"
  /\ resultEvent # None
  /\ TaskStates({"rejected"}) = {}

\* JSON parsing or the record handler has failed for a queued line
LineFailed == TaskStates({"rejected"}) # {}

\* C36: once JSON parsing or the record handler has failed for a queued
\* line, the handler is not invoked again and no record is appended to the
\* events list, for the lines queued before or after the failure and for
\* the trailing buffer at close alike; the child has been sent SIGKILL and
\* the completion is rejected.
C36_NoHandlingAfterFailure ==
  [][LineFailed =>
       /\ handled' = handled
       /\ events' = events
       /\ "SIGKILL" \in killed
       /\ completion = "rejected"
       /\ LineFailed']_vars

\* the handler threw for the first line; a second line was queued behind it
\* and the child closed with an unterminated record in the buffer
C36_Witness ==
  /\ handlerThrew
  /\ Len(processing) = 2
  /\ processing[1].st = "rejected"
  /\ processing[2].st = "rejected"
  /\ ParseJson(processing[2].line) # "SyntaxError"
  /\ Trim(stdoutBuffer) # <<>>
  /\ ParseJson(stdoutBuffer) # "SyntaxError"
  /\ closePc = "finished"
  /\ Len(handled) = 1

\* the completion of p's run settles in this step
RunSettles(p) == run[p].st = "active" /\ run'[p].st = "settled"

\* cancel() is invoked in this step while no prompt is in flight
IdleCancel ==
  /\ NoPromptInFlight
  /\ requests' = requests + 1
  /\ session'.cancelled
  /\ session'.modeId = session.modeId
  /\ pc' = pc

\* session.activeRun, when defined, refers to a run whose completion has
\* not settled, and it is undefined when no prompt is in flight
ActiveRunDefinedWhileUnsettled ==
  /\ session.activeRun # NoActiveRun => run[session.activeRun].st = "active"
  /\ NoPromptInFlight => session.activeRun = NoActiveRun

\* C37: session.activeRun is defined only while a run of the session is
\* unsettled: it is set to the run when the run is started and cleared when
\* the run's completion settles; with no prompt in flight it is undefined,
\* and cancel() then sets the flag and signals no process.
C37_ActiveRunInvariant ==
  [][/\ ActiveRunDefinedWhileUnsettled'
     /\ \A p \in Slots :
          /\ RunStarted(p) => session'.activeRun = p
          /\ RunSettles(p) => session'.activeRun = NoActiveRun
     /\ IdleCancel => (run' = run /\ session'.activeRun = NoActiveRun)]_vars

\* a prompt has been answered end_turn, then cancel() was invoked: the
\* flag is set, no run is referred to, the settled run was sent no signal
C37_Witness ==
  \E p \in Slots :
    /\ NoPromptInFlight
    /\ pc[p] = "done"
    /\ hist[p].response = "end_turn"
    /\ ~hist[p].cancelSeen
    /\ session.cancelled
    /\ session.activeRun = NoActiveRun
    /\ run[p].st = "settled"
    /\ run[p].killed = {}

\* the locals of p's attempt change in this step
AttemptLocalsChange(p) ==
  \/ loc'[p].rejectedToolCalls # loc[p].rejectedToolCalls
  \/ loc'[p].open # loc[p].open

\* C38: every attempt starts with an empty tool-use cache and an empty
\* rejected-call list, whatever the attempt before left; from then on they
\* change only when a record of that attempt's own run is handled, or when
\* the prompt returns; the rejected calls an attempt holds are those of
\* its own records.
C38_PerAttemptCache ==
  [][\A p \in Slots :
       /\ RunStarted(p) =>
            /\ ~loc'[p].open
            /\ loc'[p].rejectedToolCalls = <<>>
       /\ (AttemptLocalsChange(p) /\ ~RunStarted(p)) =>
            \/ Handles(p, Records)
            \/ pc'[p] \in {"done", "authStatus"}
       /\ run'[p].st = "active" =>
            /\ Len(loc'[p].rejectedToolCalls) <= run'[p].nlines
            /\ loc'[p].open => run'[p].nlines > 0]_vars

\* attempt #2 is running with an empty cache and no rejected call after an
\* attempt #1 that recorded a rejected call and left an entry open
C38_Witness ==
  \E p \in Slots :
    /\ hist[p].runs = 2
    /\ run[p].st = "active"
    /\ run[p].nlines > 0
    /\ run[p].line = None
    /\ hist[p].first.open
    /\ hist[p].first.rejected # <<>>
    /\ ~loc[p].open
    /\ loc[p].rejectedToolCalls = <<>>

\* ------------------------------------------------------------------------
\* unstable_listSessions.  The session list is unchanged while the client
\* pages through it; its entries are told apart by their position.  A
\* cursor is the base64 form of a JSON text; a JSON text is a sequence of
\* tokens, a number being written with one token per decimal digit.
\* ------------------------------------------------------------------------
PAGE_SIZE == 50
MaxSessions == 120   \* most sessions stored

SessionLists == {[i \in 1..n |-> i] : n \in 0..MaxSessions}

DigitChars == <<"0", "1", "2", "3", "4", "5", "6", "7", "8", "9">>
IsDigit(c) == \E d \in 1..10 : DigitChars[d] = c
DigitValue(c) == (CHOOSE d \in 1..10 : DigitChars[d] = c) - 1

\* the decimal digits of a natural number, and the number they denote
RECURSIVE Decimal(_)
Decimal(n) ==
  IF n < 10 THEN <<DigitChars[n + 1]>>
  ELSE Decimal(n \div 10) \o <<DigitChars[(n % 10) + 1]>>

RECURSIVE NumberOfDigits(_)
NumberOfDigits(ds) ==
  IF ds = <<>> THEN 0
  ELSE NumberOfDigits(SubSeq(ds, 1, Len(ds) - 1)) * 10 + DigitValue(ds[Len(ds)])

AllDigits(ds) == ds # <<>> /\ \A i \in DOMAIN ds : IsDigit(ds[i])

\* JSON.stringify({ offset: n })
StringifyOffset(n) ==
  <<"{", "\"offset\"", ":">>
    \o (IF n < 0 THEN <<"-">> \o Decimal(0 - n) ELSE Decimal(n))
    \o <<"}">>

\* Buffer.from(text).toString("base64") and Buffer.from(c, "base64"): the
\* decoding never throws; what is not base64 decodes to a text that is not
\* JSON
ToBase64(text) == [present |-> TRUE, base64 |-> text]
FromBase64(cursor) == cursor.base64
NoCursor == [present |-> FALSE, base64 |-> <<>>]

\* JSON.parse(decoded) followed by the read of .offset: the outcome is a
\* throw (a SyntaxError, or the TypeError of reading a property of null)
\* or the value of the property
ParseThrows == [threw |-> TRUE, hasOffset |-> FALSE, offset |-> NotNumber]
NoOffset == [threw |-> FALSE, hasOffset |-> FALSE, offset |-> NotNumber]
OffsetRead(v) == [threw |-> FALSE, hasOffset |-> TRUE, offset |-> v]
ParseOffset(text) ==
  IF text = <<"{", "}">> THEN NoOffset
  ELSE IF /\ Len(text) >= 5
          /\ SubSeq(text, 1, 3) = <<"{", "\"offset\"", ":">>
          /\ text[Len(text)] = "}"
    THEN LET v == SubSeq(text, 4, Len(text) - 1)
         IN  IF AllDigits(v) THEN OffsetRead(Number(NumberOfDigits(v)))
             ELSE IF Head(v) = "-" /\ AllDigits(Tail(v))
               THEN OffsetRead(Number(0 - NumberOfDigits(Tail(v))))
             ELSE IF v = <<"\"abc\"">> THEN OffsetRead(NotNumber)
             ELSE ParseThrows
  ELSE ParseThrows

\* Array.prototype.slice(start, end) for integers
slice(seq, start, end) ==
  LET len == Len(seq)
      lo == IF start < 0 THEN (IF len + start < 0 THEN 0 ELSE len + start)
            ELSE (IF start > len THEN len ELSE start)
      hi == IF end < 0 THEN (IF len + end < 0 THEN 0 ELSE len + end)
            ELSE (IF end > len THEN len ELSE end)
  IN  SubSeq(seq, lo + 1, hi)

\* the start index unstable_listSessions takes from params.cursor
StartIndexOf(cursor) ==
  IF ~cursor.present \/ cursor.base64 = <<>> THEN 0
  ELSE LET cursorData == ParseOffset(FromBase64(cursor))
       IN  IF /\ ~cursorData.threw
              /\ cursorData.hasOffset
              /\ cursorData.offset.isNumber
              /\ cursorData.offset.n >= 0
             THEN cursorData.offset.n
             ELSE 0

\* the offset the next cursor carries
NextOffsetSkipping(startIndex) == startIndex + PAGE_SIZE + 1
NextOffset(startIndex) == startIndex + PAGE_SIZE

unstable_listSessions(sessions, cursor) ==
  LET startIndex == StartIndexOf(cursor)
      pageOfSessions == slice(sessions, startIndex, startIndex + PAGE_SIZE)
      hasMore == startIndex + PAGE_SIZE < Len(sessions)
  IN  IF ~hasMore
        THEN [sessions |-> pageOfSessions, nextCursor |-> NoCursor]
        ELSE [sessions |-> pageOfSessions,
              nextCursor |-> ToBase64(StringifyOffset(NextOffset(startIndex)))]

\* cursors that are not offsets: the empty string, a text that is not
\* JSON, null, an object without offset, a negative and a non-numeric one
BadCursors ==
  { ToBase64(<<>>), ToBase64(<<"?">>), ToBase64(<<"null">>),
    ToBase64(<<"{", "}">>), ToBase64(StringifyOffset(0 - 1)),
    ToBase64(<<"{", "\"offset\"", ":", "\"abc\"", "}">>) }
OffsetCursors == {ToBase64(StringifyOffset(n)) : n \in {0, 7, PAGE_SIZE, 200}}
FirstCursors == {NoCursor} \cup BadCursors \cup OffsetCursors

\* the cursor of the client's next request, and whether there is none
CursorToFollow ==
  IF returned = <<>> THEN call.cursor ELSE returned[Len(returned)].nextCursor
LastPage == returned # <<>> /\ ~returned[Len(returned)].nextCursor.present

\* the client requests the next page
ListSessionsPage ==
  /\ ~LastPage
  /\ returned' = Append(returned, unstable_listSessions(call.sessions, CursorToFollow))
  /\ UNCHANGED call
  /\ UNCHANGED << readerVars, agentVars, mapperVars, classifyVars >>

InitSessions ==
  /\ script = [lines |-> <<>>, tail |-> <<>>, err |-> <<>>]
  /\ ReaderInit
  /\ AgentIdle
  /\ MapperInit
  /\ ClassifyInit
  /\ call \in [sessions : SessionLists, cursor : FirstCursors]
  /\ returned = <<>>

NextSessions == ListSessionsPage

\* the client follows every nextCursor it is given
SpecSessions == InitSessions /\ [][NextSessions]_vars /\ WF_vars(ListSessionsPage)

PagesOf(responses) == [i \in DOMAIN responses |-> responses[i].sessions]
FromTheStart == call.cursor \in {NoCursor} \cup BadCursors

\* C40: the pages requested without a cursor, or with a cursor that is not
\* an offset, and then with each returned nextCursor: every page holds at
\* most PAGE_SIZE entries, the first one is the page of offset 0, a last
\* page without nextCursor is reached, and the pages up to it, put together,
\* are the session list.
C40_Pagination ==
  /\ [](\A i \in DOMAIN returned : Len(returned[i].sessions) <= PAGE_SIZE)
  /\ [](FromTheStart /\ returned # <<>> =>
          returned[1] = unstable_listSessions(call.sessions, ToBase64(StringifyOffset(0))))
  /\ [](FromTheStart /\ LastPage => Flatten(PagesOf(returned)) = call.sessions)
  /\ (FromTheStart => <>LastPage)

\* three pages over more than two full pages of sessions, from no cursor
C40_Witness ==
  /\ call.cursor = NoCursor
  /\ Len(call.sessions) > 2 * PAGE_SIZE
  /\ LastPage
  /\ Len(returned) = 3

\* ------------------------------------------------------------------------
\* session.modeId.  It is written by createSession, setSessionMode, the
\* /mode command, the system/init echo of a run and prompt()'s allow_always;
\* here these follow one another in any order, `call` holding the last
\* operation with the mode before it and `returned` what each operation
\* gave.
\* ------------------------------------------------------------------------
MaxModeOps == 3   \* operations in one behaviour

ModeStep(op, requested, out) ==
  /\ Len(returned) < MaxModeOps
  /\ session' = [session EXCEPT !.modeId = out.modeId]
  /\ call' = [op |-> op, modeId |-> requested, before |-> session.modeId]
  /\ returned' = Append(returned, out)
  /\ UNCHANGED << pc, loc, run, requests, hist, grant >>
  /\ UNCHANGED << readerVars, mapperVars, classifyVars >>

SetSessionModeCall(m) ==
  ModeStep("setSessionMode", m, setSessionMode(session.modeId, m))

SlashModeCommand(target) ==
  ModeStep("/mode", target, SlashMode(session.modeId, target))

InitModeEcho(rec) ==
  ModeStep("system/init", PermissionModeOf(rec),
           ModeEcho(session.modeId, PermissionModeOf(rec)))

\* prompt(): approved === "allow_always", asked in the two asking modes
AllowAlways ==
  /\ AsksPermission(session.modeId)
  /\ ModeStep("allow_always", None,
              [modeId |-> ModeAfterAlways(session.modeId), error |-> None,
               notified |-> ModeAfterAlways(session.modeId)])

InitModes ==
  /\ script = [lines |-> <<>>, tail |-> <<>>, err |-> <<>>]
  /\ ReaderInit
  /\ AgentInit
  /\ MapperInit
  /\ ClassifyInit
  /\ call = [op |-> None, modeId |-> None, before |-> None]
  /\ returned = <<>>

NextModes ==
  \/ \E m \in RequestedModes : SetSessionModeCall(m)
  \/ \E target \in SlashTargets : SlashModeCommand(target)
  \/ \E rec \in InitRecords : InitModeEcho(rec)
  \/ AllowAlways

SpecModes == InitModes /\ [][NextModes]_vars

\* the session's mode is a supported one
ModeSupported == session.modeId \in SUPPORTED_MODE_IDS
LastOutcome == returned[Len(returned)]
Unsupported(op) ==
  returned # <<>> /\ call.op = op /\ call.modeId \notin SUPPORTED_MODE_IDS \cup {None}

\* C39: session.modeId is always one of the five supported modes;
\* setSessionMode with any other id throws invalid-params and leaves the
\* mode as it was, /mode with an unknown id leaves it as it was and sends no
\* current_mode_update, a system/init record echoing any other mode leaves
\* it as it was.
C39_ModeInvariant ==
  /\ ModeSupported
  /\ Unsupported("setSessionMode") =>
       /\ LastOutcome.error = "invalid_params"
       /\ session.modeId = call.before
  /\ Unsupported("/mode") =>
       /\ session.modeId = call.before
       /\ LastOutcome.notified = None
  /\ Unsupported("system/init") => session.modeId = call.before

\* /mode with an unknown id in a mode other than the initial one, after a
\* setSessionMode that was refused
C39_Witness ==
  /\ Unsupported("/mode")
  /\ call.before = "ask"
  /\ session.modeId = "ask"
  /\ \E i \in DOMAIN returned : returned[i].error = "invalid_params"

====
